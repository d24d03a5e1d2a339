--------------------------- MODULE ConnectorProofs ---------------------------
(***************************************************************************)
(* Proofs about NngConnector, for all sixteen classes, any number of       *)
(* starts and messages, and any interleaving of owner, callbacks and peer, *)
(* about PingServer, for any number of works and pings, and about          *)
(* LiveLinkSource, for any subjects and names, any threshold and any       *)
(* interleaving of the game thread and the socket's.                       *)
(***************************************************************************)
EXTENDS MCConnectors, SequenceTheorems, FiniteSetTheorems, TLAPS

-----------------------------------------------------------------------------
(* The calls of start.                                                     *)

Has(s, call, before) == \E i \in 1 .. before - 1 : s[i] = call

\* The socket is opened first and once, the aio is made once and before the first
\* receive, and what comes behind that cannot fail.
WellOrdered(s) ==
    /\ Len(s) \in Nat \ {0}
    /\ \A i \in 1 .. Len(s) : s[i] = "open" <=> i = 1
    /\ \A i \in 1 .. Len(s) : s[i] = "aio" => ~Has(s, "aio", i)
    /\ \A i \in 1 .. Len(s) : s[i] = "recv" => Has(s, "aio", i)
    /\ \A i \in 1 .. Len(s) : Has(s, "recv", i) => s[i] = "STARTED"

NoReceive(s) == \A i \in 1 .. Len(s) : s[i] # "recv"

\* An asynchronous pair or request.
LEMMA FiveCalls ==
    ASSUME NEW call \in {"dial", "listen"}
    PROVE  WellOrdered(<<"open", "aio", call, "recv", "STARTED">>)
<1> DEFINE s == <<"open", "aio", call, "recv", "STARTED">>
<1>1. Len(s) = 5 /\ s[1] = "open" /\ s[2] = "aio" /\ s[3] = call /\ s[4] = "recv" /\ s[5] = "STARTED"
  OBVIOUS
<1>2. 1 .. 5 = {1, 2, 3, 4, 5}
  OBVIOUS
<1> HIDE DEF s
<1>3. \A i \in 1 .. Len(s) : s[i] = "open" <=> i = 1
  BY <1>1, <1>2
<1>4. \A i \in 1 .. Len(s) : (s[i] = "aio" <=> i = 2) /\ (s[i] = "recv" <=> i = 4)
  BY <1>1, <1>2
<1>5. \A i \in 1 .. Len(s) : s[i] = "aio" => ~Has(s, "aio", i)
  BY <1>1, <1>4 DEF Has
<1>6. \A i \in 1 .. Len(s) : s[i] = "recv" => Has(s, "aio", i)
  BY <1>1, <1>4 DEF Has
<1>7. \A i \in 1 .. Len(s) : Has(s, "recv", i) => s[i] = "STARTED"
  BY <1>1, <1>4 DEF Has
<1>8. WellOrdered(s)
  BY <1>1, <1>3, <1>5, <1>6, <1>7 DEF WellOrdered
<1> QED
  BY <1>8 DEF s

\* A connector that only dials, or listens, publishes or subscribes.
LEMMA NoReceiveOrdered ==
    ASSUME NEW s, Len(s) \in Nat \ {0}, s[1] = "open",
           \A i \in 2 .. Len(s) : s[i] \notin {"open", "aio", "recv"}
    PROVE  WellOrdered(s) /\ NoReceive(s)
<1>1. \A i \in 1 .. Len(s) : s[i] \notin {"aio", "recv"} /\ (s[i] = "open" <=> i = 1)
  OBVIOUS
<1>2. \A i \in 1 .. Len(s) : ~Has(s, "recv", i)
  BY <1>1 DEF Has
<1> QED
  BY <1>1, <1>2 DEF WellOrdered, NoReceive

\* The asynchronous push connector opens, makes its aio and connects before it receives.
LEMMA PushOrdered == WellOrdered(AsyncPushSteps.AsyncPipelinePush)
<1> DEFINE s == AsyncPushSteps.AsyncPipelinePush
<1>1. /\ Len(s) = 6 /\ s[1] = "open" /\ s[2] = "aio" /\ s[3] = "dialer" /\ s[4] = "tls"
      /\ s[5] = "connect" /\ s[6] = "recv"
  BY DEF AsyncPushSteps
<1>2. 1 .. 6 = {1, 2, 3, 4, 5, 6}
  OBVIOUS
<1> HIDE DEF s
<1>3. \A i \in 1 .. Len(s) :
        (s[i] = "open" <=> i = 1) /\ (s[i] = "aio" <=> i = 2) /\ (s[i] = "recv" <=> i = 6)
  BY <1>1, <1>2
<1>4. \A i \in 1 .. Len(s) : s[i] = "aio" => ~Has(s, "aio", i)
  BY <1>1, <1>3 DEF Has
<1>5. \A i \in 1 .. Len(s) : s[i] = "recv" => Has(s, "aio", i)
  BY <1>1, <1>3 DEF Has
<1>6. \A i \in 1 .. Len(s) : ~Has(s, "recv", i)
  BY <1>1, <1>3 DEF Has
<1>7. WellOrdered(s)
  BY <1>1, <1>3, <1>4, <1>5, <1>6 DEF WellOrdered
<1> QED
  BY <1>7 DEF s

\* The asynchronous pull connector calls nng in that order too.
LEMMA PullOrdered == WellOrdered(AsyncPullSteps.AsyncPipelinePull)
<1> DEFINE s == AsyncPullSteps.AsyncPipelinePull
<1>1. Len(s) = 4 /\ s[1] = "open" /\ s[2] = "aio" /\ s[3] = "listen" /\ s[4] = "recv"
  BY DEF AsyncPullSteps
<1>2. 1 .. 4 = {1, 2, 3, 4}
  OBVIOUS
<1> HIDE DEF s
<1>3. \A i \in 1 .. Len(s) :
        (s[i] = "open" <=> i = 1) /\ (s[i] = "aio" <=> i = 2) /\ (s[i] = "recv" <=> i = 4)
  BY <1>1, <1>2
<1>4. \A i \in 1 .. Len(s) : s[i] = "aio" => ~Has(s, "aio", i)
  BY <1>1, <1>3 DEF Has
<1>5. \A i \in 1 .. Len(s) : s[i] = "recv" => Has(s, "aio", i)
  BY <1>1, <1>3 DEF Has
<1>6. \A i \in 1 .. Len(s) : ~Has(s, "recv", i)
  BY <1>1, <1>3 DEF Has
<1>7. WellOrdered(s)
  BY <1>1, <1>3, <1>4, <1>5, <1>6 DEF WellOrdered
<1> QED
  BY <1>7 DEF s

\* So does the asynchronous subscriber, with its subscription before the first receive.
LEMMA SubscriberOrdered == WellOrdered(AsyncSubscriberSteps.AsyncSubscriber)
<1> DEFINE s == AsyncSubscriberSteps.AsyncSubscriber
<1>1. /\ Len(s) = 9 /\ s[1] = "open" /\ s[2] = "subscribe" /\ s[3] = "dialer" /\ s[4] = "tls"
      /\ s[5] = "notify" /\ s[6] = "connect" /\ s[7] = "aio" /\ s[8] = "recv" /\ s[9] = "STARTED"
  BY DEF AsyncSubscriberSteps
<1>2. 1 .. 9 = {1, 2, 3, 4, 5, 6, 7, 8, 9}
  OBVIOUS
<1> HIDE DEF s
<1>3. \A i \in 1 .. Len(s) :
        (s[i] = "open" <=> i = 1) /\ (s[i] = "aio" <=> i = 7) /\ (s[i] = "recv" <=> i = 8)
  BY <1>1, <1>2
<1>4. \A i \in 1 .. Len(s) : s[i] = "aio" => ~Has(s, "aio", i)
  BY <1>1, <1>3 DEF Has
<1>5. \A i \in 1 .. Len(s) : s[i] = "recv" => Has(s, "aio", i)
  BY <1>1, <1>3 DEF Has
<1>6. \A i \in 1 .. Len(s) : Has(s, "recv", i) => s[i] = "STARTED"
  BY <1>1, <1>3 DEF Has
<1>7. WellOrdered(s)
  BY <1>1, <1>3, <1>4, <1>5, <1>6 DEF WellOrdered
<1> QED
  BY <1>7 DEF s

\* A table of an open and one connecting call is in order and never starts a receive.
LEMMA TwoCalls ==
    ASSUME NEW call \in {"dial", "listen"}
    PROVE  WellOrdered(<<"open", call>>) /\ NoReceive(<<"open", call>>)
BY NoReceiveOrdered

\* The publisher's table, which ends in the state the code sets, is in order.
LEMMA PublisherOrdered == WellOrdered(<<"open", "listen", "STARTED">>)
BY NoReceiveOrdered

\* The blocking subscriber's table is in order and never starts a receive.
LEMMA SubscriberBlockingOrdered ==
    WellOrdered(<<"open", "dial", "subscribe">>) /\ NoReceive(<<"open", "dial", "subscribe">>)
BY NoReceiveOrdered

\* Every table of a file of asynchronous connectors is in order.
LEMMA AsyncTablesOrdered == \A t \in AsyncTables : \A k \in DOMAIN t : WellOrdered(t[k])
BY FiveCalls, PushOrdered, PullOrdered, SubscriberOrdered, PublisherOrdered
   DEF AsyncTables, AsyncPairSteps, AsyncPushSteps, AsyncPullSteps, AsyncPublisherSteps,
       AsyncSubscriberSteps, AsyncRequestSteps

\* Every table of the blocking connectors is in order and starts no receive.
LEMMA BlockingTablesOrdered ==
    \A t \in BlockingTables : \A k \in DOMAIN t : WellOrdered(t[k]) /\ NoReceive(t[k])
BY TwoCalls, SubscriberBlockingOrdered
   DEF BlockingTables, PairSteps, PipelineSteps, PublisherSteps, SubscriberSteps, RequestSteps

\* No file of asynchronous connectors defines a blocking kind, so a kind has one table.
LEMMA TablesApart == \A t \in AsyncTables : \A k \in DOMAIN t : k \notin Blocking
BY DEF AsyncTables, AsyncPairSteps, AsyncPushSteps, AsyncPullSteps, AsyncPublisherSteps,
       AsyncSubscriberSteps, AsyncRequestSteps, Blocking, BlockingTables, PairSteps, PipelineSteps,
       PublisherSteps, SubscriberSteps, RequestSteps

\* The calls of every class are in order, and no blocking class receives in start.
LEMMA StepsFacts ==
    ASSUME NEW k \in Kinds
    PROVE  WellOrdered(Steps[k]) /\ (k \in Blocking => NoReceive(Steps[k]))
<1> DEFINE t == CHOOSE t \in AsyncTables \cup BlockingTables : k \in DOMAIN t
<1>1. \E u \in AsyncTables \cup BlockingTables : k \in DOMAIN u
  <2>1. k \in UNION {DOMAIN u : u \in AsyncTables} \/ k \in UNION {DOMAIN u : u \in BlockingTables}
    BY DEF Kinds, Blocking
  <2> QED
    BY <2>1
<1>2. t \in AsyncTables \cup BlockingTables /\ k \in DOMAIN t
  BY <1>1
<1>3. Steps[k] = t[k]
  BY DEF Steps
<1> HIDE DEF t
<1> QED
  BY <1>2, <1>3, AsyncTablesOrdered, BlockingTablesOrdered, TablesApart

-----------------------------------------------------------------------------
(* What runs when.                                                         *)

Apps == {"none", "idle", "starting", "failed", "up", "closing", "joining", "down", "gone"}

\* Start has made the calls before pc.
Made(call) == Has(Steps[kind], call, pc)

Receiving == armed \/ callbacks # {}

\* A receive is under way or called back only between its call in a start that
\* cannot fail any more and the end of stop.
OwnerInv ==
    /\ app \in Apps /\ starts \in Nat /\ mSocket \in Nat
    /\ IF app = "none" THEN failedAt = {} ELSE kind \in Kinds
    /\ app = "starting" => pc \in 1 .. Len(Steps[kind]) /\ starts # 0
    /\ app = "up" \/ (app = "starting" /\ pc > 1) => mSocket # 0
    /\ app = "starting" /\ Made("aio") => aio # 0
    /\ Receiving =>
          /\ aio # 0 /\ kind \notin Blocking
          /\ app \in {"up", "closing", "joining"} \/ (app = "starting" /\ Made("recv"))

Harmless == {"open"} \cup IF kind = "AsyncPipelinePush" THEN {"connect"} ELSE {}

\* The starts that have lost what they had made.
Lost == {f[1] : f \in {g \in failedAt : g[2] \notin Harmless}}

\* What is open or allocated is the object's own, of the start it is in, or lost;
\* behind a start that failed all of it is lost.
LeakInv ==
    /\ sockets \subseteq {mSocket} \cup Lost
    /\ aios \subseteq {aio, dropped} \cup Lost /\ 0 \notin aios
    /\ app \in {"none", "idle", "failed"} \/ (app = "starting" /\ pc = 1) =>
          sockets \subseteq Lost /\ aios \subseteq Lost
    /\ app = "starting" /\ pc # 1 => mSocket = starts
    /\ app = "starting" /\ Made("aio") => aio = starts
    /\ app = "starting" /\ ~Made("aio") => aios \subseteq Lost
    /\ app # "gone" => aio \in aios \cup {0}
    /\ dropped # 0 => dropped \in aios /\ aio = 0 /\ app \in {"down", "gone"}

NngInv == OwnerInv /\ LeakInv

\* NngInv holds before there is a connector.
LEMMA NngInitial == Init => NngInv
BY DEF Init, NngInv, OwnerInv, LeakInv, Receiving, Apps

\* What is lost stays so until another start fails.
LEMMA LostSame == UNCHANGED <<kind, failedAt>> => Lost' = Lost
BY DEF Lost, Harmless

\* In start: the call it is at, and those before it.
LEMMA CallFacts ==
    ASSUME OwnerInv, app = "starting"
    PROVE  /\ kind \in Kinds /\ pc \in 1 .. Len(Steps[kind]) /\ Len(Steps[kind]) \in Nat
           /\ Call = "open" <=> pc = 1
           /\ Call = "aio" => ~Made("aio")
           /\ Call = "recv" => Made("aio") /\ kind \notin Blocking
           /\ Made("recv") => Call = "STARTED"
           /\ \A call : Has(Steps[kind], call, pc + 1) <=> Made(call) \/ Call = call
<1>1. kind \in Kinds /\ pc \in 1 .. Len(Steps[kind])
  BY DEF OwnerInv
<1>2. WellOrdered(Steps[kind]) /\ (kind \in Blocking => NoReceive(Steps[kind]))
  BY <1>1, StepsFacts
<1>3. \A call : Has(Steps[kind], call, pc + 1) <=> Made(call) \/ Call = call
  <2>1. 1 .. (pc + 1) - 1 = (1 .. pc - 1) \cup {pc}
    BY <1>1, <1>2 DEF WellOrdered
  <2> QED
    BY <2>1 DEF Has, Made, Call
<1> QED
  BY <1>1, <1>2, <1>3 DEF WellOrdered, NoReceive, Made, Call

\* Making a connector keeps NngInv.
LEMMA NewSound == ASSUME NngInv, NEW k \in Kinds, New(k) PROVE NngInv'
<1>1. /\ app = "none" /\ app' = "idle" /\ kind' = k
      /\ UNCHANGED <<starts, pc, mSocket, aio, sockets, aios, failedAt, armed, callbacks>>
  BY DEF New, net
<1>2. ~Receiving
  BY <1>1 DEF NngInv, OwnerInv
<1>3. OwnerInv'
  BY <1>1, <1>2 DEF NngInv, OwnerInv, Receiving, Apps
<1>4. failedAt = {} /\ failedAt' = {}
  BY <1>1 DEF NngInv, OwnerInv
<1>5. Lost = {} /\ Lost' = {}
  BY <1>4 DEF Lost
<1>6. dropped' = dropped
  BY DEF New
<1>7. LeakInv'
  BY <1>1, <1>5, <1>6 DEF NngInv, LeakInv
<1> QED
  BY <1>3, <1>7 DEF NngInv

\* Entering start keeps NngInv.
LEMMA CallStartSound == NngInv /\ CallStart => NngInv'
<1> SUFFICES ASSUME NngInv, CallStart PROVE NngInv'
  OBVIOUS
<1>1. Len(Steps[kind]) \in Nat \ {0} /\ kind \in Kinds
  BY StepsFacts DEF NngInv, OwnerInv, CallStart, WellOrdered
<1>2. ~Has(Steps[kind], "recv", 1) /\ ~Has(Steps[kind], "aio", 1)
  BY DEF Has
<1>3. OwnerInv'
  BY <1>1, <1>2 DEF NngInv, OwnerInv, Receiving, Apps, CallStart, peer, net, reader, Made
<1>4. Lost' = Lost
  BY LostSame DEF CallStart
<1>5. LeakInv'
  BY <1>1, <1>2, <1>4 DEF NngInv, LeakInv, CallStart, Made
<1> QED
  BY <1>3, <1>5 DEF NngInv

\* A call of start that nng grants keeps NngInv: the tables say what may follow it.
LEMMA CallSucceedsSound == NngInv /\ CallSucceeds => NngInv'
<1> SUFFICES ASSUME NngInv, CallSucceeds PROVE NngInv'
  OBVIOUS
<1>1. app = "starting" /\ OwnerInv /\ LeakInv
  BY DEF NngInv, CallSucceeds
<1>2. /\ kind \in Kinds /\ pc \in 1 .. Len(Steps[kind]) /\ Len(Steps[kind]) \in Nat
      /\ Call = "open" <=> pc = 1
      /\ Call = "aio" => ~Made("aio")
      /\ Call = "recv" => Made("aio") /\ kind \notin Blocking
      /\ Made("recv") => Call = "STARTED"
      /\ \A call : Has(Steps[kind], call, pc + 1) <=> Made(call) \/ Call = call
  BY <1>1, CallFacts
<1>3. /\ kind' = kind /\ starts' = starts /\ pc' = pc + 1 /\ failedAt' = failedAt
      /\ dropped' = dropped
      /\ app' \in {"up", "starting"} /\ (app' = "starting" => pc # Len(Steps[kind]))
  BY DEF CallSucceeds
<1>a. Lost' = Lost
  BY <1>3, LostSame
<1>4. \A call : Made(call)' <=> Made(call) \/ Call = call
  BY <1>2, <1>3 DEF Made
<1>5. CASE Call = "open"
  <2>1. /\ mSocket' = starts /\ sockets' = sockets \cup {starts}
        /\ UNCHANGED <<aio, aios, armed, callbacks>>
    BY <1>5 DEF CallSucceeds, Open
  <2>2. pc = 1 /\ ~Receiving
    BY <1>1, <1>2, <1>5 DEF OwnerInv
  <2>3. ~Receiving' /\ starts \in Nat /\ starts # 0
    BY <1>1, <2>1, <2>2 DEF OwnerInv, Receiving
  <2>4. app' = "starting" => pc' \in 1 .. Len(Steps[kind])'
    BY <1>2, <1>3
  <2>5. OwnerInv'
    BY <1>1, <1>2, <1>3, <1>4, <1>5, <2>1, <2>3, <2>4 DEF OwnerInv, Apps
  <2>6. LeakInv'
    BY <1>1, <1>2, <1>3, <1>4, <1>5, <1>a, <2>1, <2>2 DEF LeakInv
  <2> QED
    BY <2>5, <2>6 DEF NngInv
<1>6. CASE Call = "aio"
  <2>1. aio' = starts /\ aios' = aios \cup {starts} /\ UNCHANGED <<mSocket, sockets, armed, callbacks>>
    BY <1>6 DEF CallSucceeds, AllocAio, net
  <2>2. pc # 1 /\ ~Receiving /\ starts # 0
    BY <1>1, <1>2, <1>6 DEF OwnerInv
  <2>3. OwnerInv'
    BY <1>1, <1>2, <1>3, <1>4, <1>6, <2>1, <2>2 DEF OwnerInv, Receiving, Apps
  <2>4. LeakInv'
    BY <1>1, <1>2, <1>3, <1>4, <1>6, <1>a, <2>1, <2>2 DEF LeakInv
  <2> QED
    BY <2>3, <2>4 DEF NngInv
<1>7. CASE Call = "recv"
  <2>1. armed' = TRUE /\ UNCHANGED <<mSocket, sockets, aio, aios, callbacks>>
    BY <1>7 DEF CallSucceeds, Receive
  <2>2. OwnerInv'
    BY <1>1, <1>2, <1>3, <1>4, <1>7, <2>1 DEF OwnerInv, Receiving, Apps
  <2>3. LeakInv'
    BY <1>1, <1>2, <1>3, <1>4, <1>7, <1>a, <2>1 DEF LeakInv
  <2> QED
    BY <2>2, <2>3 DEF NngInv
<1>8. CASE Call \notin {"open", "aio", "recv"}
  <2>1. UNCHANGED <<mSocket, sockets, aio, aios, armed, callbacks>>
    BY <1>8 DEF CallSucceeds, SetStarted, net
  <2>2. OwnerInv'
    BY <1>1, <1>2, <1>3, <1>4, <1>8, <2>1 DEF OwnerInv, Receiving, Apps
  <2>3. LeakInv'
    BY <1>1, <1>2, <1>3, <1>4, <1>8, <1>a, <2>1 DEF LeakInv
  <2> QED
    BY <2>2, <2>3 DEF NngInv
<1> QED
  BY <1>5, <1>6, <1>7, <1>8

\* A call of start that nng refuses, and the early return after it, keep NngInv.
LEMMA CallFailsSound == NngInv /\ CallFails => NngInv'
<1> SUFFICES ASSUME NngInv, CallFails PROVE NngInv'
  OBVIOUS
<1>1. app = "starting" /\ OwnerInv /\ LeakInv
  BY DEF NngInv, CallFails
<1>2. /\ Call = "open" <=> pc = 1
      /\ Made("recv") => Call = "STARTED"
  BY <1>1, CallFacts
<1>3. ~Receiving
  BY <1>1, <1>2 DEF OwnerInv, CallFails
<1>4. /\ kind' = kind /\ starts' = starts /\ app' = "failed" /\ dropped' = dropped
      /\ failedAt' = failedAt \cup {<<starts, Call>>}
      /\ UNCHANGED <<armed, callbacks>>
  BY DEF CallFails, net
<1>5. OwnerInv'
  BY <1>1, <1>3, <1>4 DEF OwnerInv, Receiving, Apps, CallFails, Release
<1>6. Harmless' = Harmless
  BY <1>4 DEF Harmless
<1>7. dropped = 0 /\ (Call # "open" => mSocket = starts)
  BY <1>1, <1>2 DEF LeakInv
<1>8. CASE Call \in Harmless
  <2>1. {g \in failedAt' : g[2] \notin Harmless'} = {g \in failedAt : g[2] \notin Harmless}
    BY <1>4, <1>6, <1>8
  <2>2. Lost' = Lost
    BY <2>1 DEF Lost
  <2>3. CASE Call = "open"
    <3>1. UNCHANGED <<mSocket, sockets, aio, aios>>
      BY <2>3 DEF CallFails, Release
    <3> QED
      BY <1>1, <1>2, <1>4, <1>5, <1>7, <2>2, <2>3, <3>1 DEF LeakInv, NngInv
  <2>4. CASE kind = "AsyncPipelinePush" /\ Call = "connect"
    <3>1. mSocket' = 0 /\ sockets' = sockets \ {mSocket} /\ aio' = 0 /\ aios' = aios \ {aio}
      BY <2>4 DEF CallFails, Release
    <3>2. aios \subseteq {aio} \cup Lost
      <4>1. CASE Made("aio")
        BY <4>1, <1>1, <1>7 DEF LeakInv, OwnerInv
      <4>2. CASE ~Made("aio")
        BY <4>2, <1>1 DEF LeakInv
      <4> QED
        BY <4>1, <4>2
    <3> QED
      BY <1>1, <1>4, <1>5, <1>7, <2>2, <3>1, <3>2 DEF LeakInv, NngInv
  <2> QED
    BY <1>8, <2>3, <2>4 DEF Harmless
<1>9. CASE Call \notin Harmless
  <2>1. {g \in failedAt' : g[2] \notin Harmless'}
          = {g \in failedAt : g[2] \notin Harmless} \cup {<<starts, Call>>}
    BY <1>4, <1>6, <1>9
  <2>2. Lost' = Lost \cup {starts}
    <3> DEFINE G == {g \in failedAt : g[2] \notin Harmless}
    <3>1. {f[1] : f \in G \cup {<<starts, Call>>}} = {f[1] : f \in G} \cup {<<starts, Call>>[1]}
      OBVIOUS
    <3> QED
      BY <2>1, <3>1 DEF Lost
  <2>3. Call # "open" /\ UNCHANGED <<mSocket, sockets, aio, aios>>
    BY <1>9 DEF Harmless, CallFails, Release
  <2>4. sockets \subseteq Lost' /\ aios \subseteq Lost'
    <3>1. sockets \subseteq Lost'
      BY <1>1, <1>7, <2>2, <2>3 DEF LeakInv
    <3>2. CASE Made("aio")
      <4>1. aio = starts /\ aios \subseteq {aio, dropped} \cup Lost /\ 0 \notin aios
        BY <3>2, <1>1 DEF LeakInv, OwnerInv
      <4> QED
        BY <3>1, <4>1, <1>7, <2>2
    <3>3. CASE ~Made("aio")
      BY <3>1, <3>3, <1>1, <2>2 DEF LeakInv
    <3> QED
      BY <3>2, <3>3
  <2> QED
    BY <1>1, <1>4, <1>5, <1>7, <2>3, <2>4 DEF LeakInv, NngInv
<1> QED
  BY <1>8, <1>9

\* nng, the callbacks and the readers: they go on where they are under way.
LEMMA EnvironmentSound ==
    ASSUME NngInv, UNCHANGED <<OwnerBut>>, Receiving' => Receiving PROVE NngInv'
BY LostSame DEF NngInv, OwnerInv, LeakInv, OwnerBut, Made

\* A step of nng's thread in a callback keeps NngInv.
LEMMA CallbackSound ==
    ASSUME NngInv, NEW c \in callbacks, AsyncReadMsg(c) \/ Callback(c) PROVE NngInv'
<1>1. Receiving
  BY DEF Receiving
<1>2. UNCHANGED OwnerBut
  BY DEF AsyncReadMsg, TakeResult, Rearm, Hand, Callback, LookAtResult, ReceiveAnother,
         HandAndRearm, owner, OwnerBut
<1> QED
  BY <1>1, <1>2, EnvironmentSound

\* Entering stop keeps NngInv.
LEMMA CallStopSound == NngInv /\ CallStop => NngInv'
<1> SUFFICES ASSUME NngInv, CallStop PROVE NngInv'
  OBVIOUS
<1>1. OwnerInv'
  BY DEF NngInv, OwnerInv, Receiving, Apps, CallStop, peer, net, reader, Made
<1>2. Lost' = Lost
  BY LostSame DEF CallStop
<1>3. LeakInv'
  BY <1>2 DEF NngInv, LeakInv, CallStop, Made
<1> QED
  BY <1>1, <1>3 DEF NngInv

\* The steps of stop keep NngInv.
LEMMA StopSound == NngInv /\ Stop => NngInv'
<1> SUFFICES ASSUME NngInv, Stop PROVE NngInv'
  OBVIOUS
<1>1. OwnerInv'
  BY DEF NngInv, OwnerInv, Receiving, Apps, Stop, StopAio, AioStopped, peer, net, reader, Made
<1>2. Lost' = Lost
  BY LostSame DEF Stop, StopAio, AioStopped
<1>3. LeakInv'
  BY <1>2 DEF NngInv, LeakInv, Stop, StopAio, AioStopped, Made
<1> QED
  BY <1>1, <1>3 DEF NngInv

\* Deleting a connector of either family keeps NngInv.
LEMMA DeleteSound == NngInv /\ (Delete \/ DeleteBlocking) => NngInv'
<1> SUFFICES ASSUME NngInv, (Delete \/ DeleteBlocking) PROVE NngInv'
  OBVIOUS
<1>1. OwnerInv'
  BY DEF NngInv, OwnerInv, Receiving, Apps, Delete, DeleteBlocking, peer, net, reader, Made
<1>2. Lost' = Lost
  BY LostSame DEF Delete, DeleteBlocking
<1>3. LeakInv'
  BY <1>2 DEF NngInv, LeakInv, Delete, DeleteBlocking, Made
<1> QED
  BY <1>1, <1>3 DEF NngInv

\* Every step of a connector keeps NngInv.
LEMMA NngStep == NngInv /\ [Next]_vars => NngInv'
<1> SUFFICES ASSUME NngInv, [Next]_vars PROVE NngInv'
  OBVIOUS
<1>1. CASE Connect \/ Disconnect \/ Arrive \/ Received \/ ReceiveFails
           \/ ReadMessage \/ Relay \/ ShowMessage \/ UNCHANGED vars
  <2>1. UNCHANGED OwnerBut /\ (Receiving' => Receiving)
    BY <1>1 DEF Connect, Disconnect, Arrive, Received, ReceiveFails, ReceiveEnds, ReadMessage,
       Relay, ShowMessage, vars, owner, net, OwnerBut, Receiving
  <2> QED
    BY <2>1, EnvironmentSound
<1> QED
  BY <1>1, NewSound, CallStartSound, CallSucceedsSound, CallFailsSound, CallbackSound,
     CallStopSound, StopSound, DeleteSound DEF Next

\* NngInv is an invariant of a connector.
LEMMA NngInvariant == Spec => []NngInv
BY NngInitial, NngStep, PTL DEF Spec

-----------------------------------------------------------------------------
(* The properties.                                                         *)

\* Of every class, after any failed starts: when stop has returned, no callback
\* runs or will run, and the owner may free what it uses.
THEOREM QuietWhenStopped == Spec => []QuietAfterStop
<1>1. NngInv => QuietAfterStop
  BY DEF NngInv, OwnerInv, Receiving, QuietAfterStop
<1> QED
  BY <1>1, NngInvariant, PTL

\* However often start is tried again, and whenever the object is stopped and
\* deleted: what nobody can close or free any more is what starts left that failed
\* behind the call that made it (in a push connector, not where it connects), and
\* the aio of every stop that had one.
THEOREM LossesKnown == Spec => []LossesAccountedFor
<1>1. NngInv => LossesAccountedFor
  BY DEF NngInv, LeakInv, Lost, Harmless, LossesAccountedFor
<1> QED
  BY <1>1, NngInvariant, PTL

-----------------------------------------------------------------------------
(* Where the messages are.                                                 *)

\* How many messages were taken out of the queue: messages are numbered as they come.
Taken == arrived - Len(inbox)

QueueInv ==
    /\ arrived \in 0 .. MaxMsgs /\ Len(inbox) <= arrived
    /\ inbox \in Seq(Nat) /\ handed \in Seq(Nat) /\ armed \in BOOLEAN
    /\ slot \in Nat /\ \A c \in callbacks : c.msg \in Nat
    /\ \A i \in 1 .. Len(inbox) : inbox[i] = Taken + i
    /\ app \in {"none", "closing", "joining", "down"} => mSocket = 0
    /\ app = "none" => kind = "none"
    /\ kind \notin Hears \cup Read =>
          arrived = 0 /\ handed = <<>> /\ \A c \in callbacks : c.at # "hand"

\* A reader has read what was taken, in order, and what it published is of that.
ReaderInv ==
    /\ held \in Nat /\ relayed \in Seq(Nat) /\ len \in Nat /\ cap \in Nat
    /\ BufferHolds
    /\ held # 0 \/ relayed # <<>> => app = "up" /\ kind \in Read
    /\ kind \in Read =>
          /\ Len(handed) = Taken /\ \A i \in 1 .. Len(handed) : handed[i] = i
          /\ held \in {0, Taken}
          /\ \A i \in 1 .. Len(relayed) :
                /\ relayed[i] \in 1 .. Taken
                /\ held # 0 => relayed[i] < held
                /\ i > 1 => relayed[i - 1] < relayed[i]

Called == [at |-> "called", msg |-> 0]

\* While the socket of a pair or subscriber is open one thing at a time can take
\* messages: the armed receive, or the callback that has not armed it again.  A
\* message taken is in the aio of that callback, in the hands of one callback,
\* or handed over.
TurnsInv ==
    kind \in ByMessage /\ mSocket # 0 =>
        /\ armed => \A c \in callbacks : c.at = "hand"
        /\ \A c, e \in callbacks : c.at # "hand" /\ e.at # "hand" => c = e
        /\ \A c \in callbacks :
            \/ c = Called
            \/ c.at \in {"rearm", "hand"} /\ c.msg \in 1 .. Taken
               /\ c = [at |-> c.at, msg |-> c.msg]
OnceInv ==
    kind \in ByMessage /\ mSocket # 0 =>
        /\ \A i \in 1 .. Len(handed) : handed[i] \in 1 .. Taken /\ ~Empty(handed[i])
        /\ \A i, j \in 1 .. Len(handed) : handed[i] = handed[j] => i = j
        /\ \A c \in callbacks : \A i \in 1 .. Len(handed) : handed[i] # c.msg
        /\ \A c, e \in callbacks : c.msg = e.msg => c = e
        /\ Called \in callbacks /\ slot # 0 =>
              /\ slot \in 1 .. Taken
              /\ \A i \in 1 .. Len(handed) : handed[i] # slot
              /\ \A c \in callbacks : c.msg # slot
        /\ \A m \in 1 .. Taken :
              \/ Empty(m) \/ \E i \in 1 .. Len(handed) : handed[i] = m
              \/ \E c \in callbacks : c.msg = m
              \/ Called \in callbacks /\ slot = m

\* Start has not received yet.
Unheard == app \in {"idle", "failed"} \/ (app = "starting" /\ ~Made("recv"))

\* A pipeline has one callback, which takes a message beside the one it was
\* called for.
PullInv ==
    kind = "AsyncPipelinePull" /\ mSocket # 0 =>
        /\ Unheard => Taken = 0 /\ Len(handed) = 0
        /\ armed => callbacks = {} /\ Taken = 2 * Len(handed)
        /\ \A c, e \in callbacks : c = e
        /\ \A c \in callbacks :
            \/ c.at \in {"called", "receive"} /\ Taken = 2 * Len(handed) + 1
            \/ c.at = "hand" /\ c.msg = Taken /\ Taken = 2 * Len(handed) + 2
        /\ \A i \in 1 .. Len(handed) : handed[i] = 2 * i

HeardInv == QueueInv /\ ReaderInv /\ TurnsInv /\ OnceInv /\ PullInv

\* The classes are of one sort each.
LEMMA SortsApart ==
    /\ Read \subseteq Blocking
    /\ ByMessage \cap Blocking = {} /\ ByMessage \cap Read = {}
    /\ "AsyncPipelinePull" \notin ByMessage \cup Blocking
    /\ "none" \notin Hears \cup Read
    /\ Hears = ByMessage \cup {"AsyncPipelinePull"}
BY DEF Read, ByMessage, Hears, Blocking, BlockingTables, PairSteps, PipelineSteps,
       PublisherSteps, SubscriberSteps, RequestSteps

\* A queue that loses its first element.
LEMMA TailFacts ==
    ASSUME NEW s \in Seq(Nat), s # <<>>
    PROVE  /\ Len(s) \in Nat \ {0} /\ Head(s) = s[1] /\ Head(s) \in Nat
           /\ Tail(s) \in Seq(Nat) /\ Len(Tail(s)) = Len(s) - 1
           /\ \A i \in 1 .. Len(Tail(s)) : Tail(s)[i] = s[i + 1]
BY HeadTailProperties

\* A sequence that gets another element.
LEMMA AppendFacts ==
    ASSUME NEW s \in Seq(Nat), NEW e \in Nat
    PROVE  /\ Append(s, e) \in Seq(Nat) /\ Len(Append(s, e)) = Len(s) + 1 /\ Len(s) \in Nat
           /\ \A i \in 1 .. Len(s) : Append(s, e)[i] = s[i] /\ s[i] \in Nat
           /\ Append(s, e)[Len(s) + 1] = e
BY AppendProperties, ElementOfSeq

\* The message taken out of the queue is the next one.
LEMMA NextTaken ==
    ASSUME QueueInv, inbox # <<>>, inbox' = Tail(inbox), arrived' = arrived
    PROVE  /\ Taken \in Nat /\ Head(inbox) = Taken + 1 /\ Taken' = Taken + 1
           /\ Head(inbox) \in 1 .. MaxMsgs
           /\ inbox' \in Seq(Nat) /\ Len(inbox') <= arrived'
           /\ \A i \in 1 .. Len(inbox') : inbox'[i] = Taken' + i
<1>1. /\ arrived \in 0 .. MaxMsgs /\ Len(inbox) <= arrived /\ inbox \in Seq(Nat)
      /\ \A i \in 1 .. Len(inbox) : inbox[i] = Taken + i
  BY DEF QueueInv
<1>2. /\ Len(inbox) \in Nat \ {0} /\ Head(inbox) = inbox[1]
      /\ inbox' \in Seq(Nat) /\ Len(inbox') = Len(inbox) - 1
      /\ \A i \in 1 .. Len(inbox') : inbox'[i] = inbox[i + 1]
  BY <1>1, TailFacts
<1>3. MaxMsgs \in Nat /\ arrived \in Nat
  BY <1>1, ConnectorAssumption DEF ConnectorAssumption
<1>4. Taken' = Taken + 1 /\ Taken \in Nat /\ Taken + 1 <= arrived
  BY <1>1, <1>2, <1>3 DEF Taken
<1>5. Head(inbox) = Taken + 1
  BY <1>1, <1>2
<1>6. ASSUME NEW i \in 1 .. Len(inbox') PROVE inbox'[i] = Taken' + i
  <2>1. i \in Nat /\ i + 1 \in 1 .. Len(inbox)
    BY <1>2, <1>6
  <2>2. inbox'[i] = Taken + (i + 1)
    BY <1>1, <1>2, <1>6, <2>1
  <2> QED
    BY <1>4, <2>1, <2>2
<1> QED
  BY <1>1, <1>2, <1>3, <1>4, <1>5, <1>6

\* Nothing is in an empty sequence.
LEMMA EmptyFacts == \A s : s = <<>> => s \in Seq(Nat) /\ Len(s) = 0
OBVIOUS

\* While a receive is under way or called back, start has received.
LEMMA ReceivingHeard == OwnerInv /\ Receiving => ~Unheard
BY DEF OwnerInv, Unheard

\* It is the owner that has received or not.
LEMMA UnheardSame ==
    ASSUME UNCHANGED <<kind, app, pc>>
    PROVE  Unheard' <=> Unheard
BY DEF Unheard, Made

\* Nothing is heard before there is a connector.
LEMMA HeardInitial == Init => HeardInv
<1> SUFFICES ASSUME Init PROVE HeardInv
  OBVIOUS
<1>1. QueueInv
  <2>1. Len(inbox) = 0 /\ inbox \in Seq(Nat) /\ handed \in Seq(Nat)
    BY EmptyFacts DEF Init
  <2>3. 0 \in 0 .. MaxMsgs
    BY ConnectorAssumption DEF ConnectorAssumption
  <2>2. /\ arrived = 0 /\ arrived \in 0 .. MaxMsgs /\ armed \in BOOLEAN
        /\ mSocket = 0 /\ kind = "none" /\ callbacks = {} /\ handed = <<>> /\ slot = 0
    BY <2>3 DEF Init
  <2> QED
    BY <2>1, <2>2 DEF QueueInv
<1>2. ReaderInv
  BY ConnectorAssumption, SortsApart DEF ConnectorAssumption, Init, ReaderInv, BufferHolds
<1>3. TurnsInv /\ OnceInv /\ PullInv
  BY DEF Init, TurnsInv, OnceInv, PullInv
<1> QED
  BY <1>1, <1>2, <1>3 DEF HeardInv

\* The owner: it leaves messages and callbacks alone, and at most closes the socket.
LEMMA OwnerKeepsHeard ==
    ASSUME HeardInv,
           UNCHANGED <<kind, arrived, inbox, armed, slot, callbacks, handed, reader>>,
           mSocket' \in {mSocket, 0},
           app' \in {"none", "closing", "joining", "down"} => mSocket' = 0,
           app' = "none" => kind = "none",
           held # 0 \/ relayed # <<>> => app' = "up",
           Unheard' => Unheard \/ mSocket' = 0 \/ kind \in Blocking
    PROVE  HeardInv'
<1>1. Taken' = Taken
  BY DEF Taken
<1>2. QueueInv'
  BY <1>1 DEF HeardInv, QueueInv
<1>3. ReaderInv'
  BY <1>1 DEF HeardInv, ReaderInv, BufferHolds, reader
<1>4. TurnsInv'
  BY <1>1 DEF HeardInv, TurnsInv, Called
<1>5. OnceInv'
  BY <1>1 DEF HeardInv, OnceInv, Called
<1>6. PullInv'
  BY <1>1, SortsApart DEF HeardInv, PullInv
<1> QED
  BY <1>2, <1>3, <1>4, <1>5, <1>6 DEF HeardInv

\* A new connector's receiver is the one its kind has, and it has heard nothing.
LEMMA NewHeard == ASSUME NngInv, HeardInv, NEW k \in Kinds, New(k) PROVE HeardInv'
<1>1. /\ app = "none" /\ app' = "idle" /\ kind' = k
      /\ UNCHANGED <<mSocket, arrived, inbox, armed, slot, callbacks, handed,
                     len, cap, held, relayed>>
  BY DEF New, net, peer, reader
<1>2. /\ kind = "none" /\ mSocket = 0 /\ kind \notin Hears \cup Read
      /\ callbacks = {}
      /\ held = 0 /\ relayed = <<>>
  BY <1>1, SortsApart DEF HeardInv, QueueInv, ReaderInv, NngInv, OwnerInv, Receiving
<1>3. arrived = 0 /\ handed = <<>> /\ inbox \in Seq(Nat) /\ Len(inbox) <= arrived
  BY <1>2 DEF HeardInv, QueueInv
<1>4. Taken = 0 /\ Taken' = 0 /\ Len(handed) = 0
  <2>1. Len(inbox) = 0
    BY <1>3
  <2> QED
    BY <1>1, <1>3, <2>1 DEF Taken
<1>5. QueueInv'
  BY <1>1, <1>2, <1>3, <1>4 DEF HeardInv, QueueInv
<1>6. ReaderInv'
  BY <1>1, <1>2, <1>3, <1>4 DEF HeardInv, ReaderInv, BufferHolds
<1>7. TurnsInv' /\ OnceInv' /\ PullInv'
  BY <1>1, <1>2 DEF TurnsInv, OnceInv, PullInv
<1> QED
  BY <1>5, <1>6, <1>7 DEF HeardInv

\* A socket that is opened has heard nothing, and nothing of an old one is left.
LEMMA OpenHeard ==
    ASSUME NngInv, HeardInv, app = "starting", pc = 1, Open,
           UNCHANGED kind, app' \in {"up", "starting"}
    PROVE  HeardInv'
<1>1. /\ mSocket' = starts /\ arrived' = 0 /\ inbox' = <<>> /\ handed' = <<>>
      /\ UNCHANGED <<armed, slot, callbacks, len, cap, held, relayed>>
  BY DEF Open, reader
<1>2. ~Has(Steps[kind], "recv", 1)
  BY DEF Has
<1>3. callbacks = {} /\ ~armed
  BY <1>2 DEF NngInv, OwnerInv, Receiving, Made
<1>4. held = 0 /\ relayed = <<>>
  BY DEF HeardInv, ReaderInv
<1>5. Taken' = 0 /\ Len(handed') = 0 /\ handed' \in Seq(Nat) /\ inbox' \in Seq(Nat) /\ Len(inbox') = 0
  <2>1. Len(handed') = 0 /\ handed' \in Seq(Nat) /\ inbox' \in Seq(Nat) /\ Len(inbox') = 0
    BY <1>1, EmptyFacts
  <2>2. arrived' = 0
    BY <1>1
  <2> QED
    BY <2>1, <2>2 DEF Taken
<1>6. QueueInv'
  BY <1>1, <1>3, <1>5, ConnectorAssumption DEF ConnectorAssumption, HeardInv, QueueInv
<1>7. ReaderInv'
  BY <1>1, <1>4, <1>5 DEF HeardInv, ReaderInv, BufferHolds
<1>8. TurnsInv' /\ OnceInv' /\ PullInv'
  BY <1>1, <1>3, <1>5 DEF TurnsInv, OnceInv, PullInv
<1> QED
  BY <1>6, <1>7, <1>8 DEF HeardInv

\* The first receive is armed when no other is under way and no callback runs.
LEMMA FirstReceiveHeard ==
    ASSUME NngInv, HeardInv, app = "starting", Call = "recv", Receive,
           UNCHANGED kind, app' \in {"up", "starting"}
    PROVE  HeardInv'
<1>1. /\ armed' = TRUE
      /\ UNCHANGED <<mSocket, arrived, inbox, slot, callbacks, handed, len, cap, held, relayed>>
  BY DEF Receive, peer, reader
<1>2. callbacks = {} /\ kind \notin Blocking
  <2>1. ~Made("recv") /\ kind \notin Blocking
    BY CallFacts DEF NngInv
  <2> QED
    BY <2>1 DEF NngInv, OwnerInv, Receiving
<1>3. held = 0 /\ relayed = <<>>
  BY DEF HeardInv, ReaderInv
<1>4. Taken' = Taken
  BY <1>1 DEF Taken
<1>5. QueueInv'
  BY <1>1, <1>4 DEF HeardInv, QueueInv
<1>6. ReaderInv'
  BY <1>1, <1>3, <1>4 DEF HeardInv, ReaderInv, BufferHolds
<1>7. TurnsInv' /\ OnceInv'
  BY <1>1, <1>2, <1>4 DEF HeardInv, TurnsInv, OnceInv, Called
<1>8. PullInv'
  <2>1. ~Made("recv")
    BY CallFacts DEF NngInv
  <2> QED
    BY <1>1, <1>2, <1>4, <2>1 DEF HeardInv, PullInv, Unheard
<1> QED
  BY <1>5, <1>6, <1>7, <1>8 DEF HeardInv

\* A message that arrives goes behind the others in the queue.
LEMMA ArriveHeard == ASSUME HeardInv, Arrive PROVE HeardInv'
<1>1. /\ kind \in Hears \cup Read /\ arrived < MaxMsgs /\ arrived' = arrived + 1
      /\ inbox' = Append(inbox, arrived + 1)
      /\ UNCHANGED <<kind, app, pc, mSocket, armed, slot, callbacks, handed,
                     len, cap, held, relayed>>
  BY DEF Arrive, owner, reader
<1>2. /\ arrived \in 0 .. MaxMsgs /\ Len(inbox) <= arrived /\ inbox \in Seq(Nat)
      /\ \A i \in 1 .. Len(inbox) : inbox[i] = Taken + i
      /\ MaxMsgs \in Nat
  BY ConnectorAssumption DEF ConnectorAssumption, HeardInv, QueueInv
<1>3. /\ inbox' \in Seq(Nat) /\ Len(inbox') = Len(inbox) + 1 /\ Len(inbox) \in Nat
      /\ \A i \in 1 .. Len(inbox) : inbox'[i] = inbox[i]
      /\ inbox'[Len(inbox) + 1] = arrived + 1
  BY <1>1, <1>2, AppendFacts
<1>4. Taken' = Taken /\ Taken \in Nat
  BY <1>1, <1>2, <1>3 DEF Taken
<1>5. \A i \in 1 .. Len(inbox') : inbox'[i] = Taken' + i
  <2> SUFFICES ASSUME NEW i \in 1 .. Len(inbox') PROVE inbox'[i] = Taken + i
    BY <1>4
  <2>1. CASE i \in 1 .. Len(inbox)
    BY <2>1, <1>2, <1>3
  <2>2. CASE i = Len(inbox) + 1
    BY <2>2, <1>2, <1>3 DEF Taken
  <2> QED
    BY <2>1, <2>2, <1>3
<1>6. arrived' \in 0 .. MaxMsgs /\ Len(inbox') <= arrived'
  BY <1>1, <1>2, <1>3
<1>7. QueueInv'
  BY <1>1, <1>3, <1>5, <1>6 DEF HeardInv, QueueInv
<1>8. ReaderInv'
  BY <1>1, <1>4 DEF HeardInv, ReaderInv, BufferHolds
<1>9. TurnsInv'
  BY <1>1, <1>4 DEF HeardInv, TurnsInv, Called
<1>10. OnceInv'
  BY <1>1, <1>4 DEF HeardInv, OnceInv, Called
<1>11. PullInv'
  BY <1>1, <1>4, UnheardSame DEF HeardInv, PullInv
<1> QED
  BY <1>7, <1>8, <1>9, <1>10, <1>11 DEF HeardInv

\* A receive that ends with a message: no callback that has not armed it again is
\* there, so the message in the aio is that of the one that begins.
LEMMA ReceivedHeard == ASSUME NngInv, HeardInv, Received PROVE HeardInv'
<1>1. /\ armed /\ armed' = FALSE /\ mSocket # 0 /\ inbox # <<>>
      /\ slot' = Head(inbox) /\ inbox' = Tail(inbox)
      /\ callbacks' = callbacks \cup {Called}
      /\ UNCHANGED <<kind, app, pc, mSocket, arrived, handed, len, cap, held, relayed>>
  BY DEF Received, ReceiveEnds, Called, owner, peer, reader
<1>2. /\ Taken \in Nat /\ Head(inbox) = Taken + 1 /\ Taken' = Taken + 1
      /\ inbox' \in Seq(Nat) /\ Len(inbox') <= arrived'
      /\ \A i \in 1 .. Len(inbox') : inbox'[i] = Taken' + i
  BY <1>1, NextTaken DEF HeardInv
<1>3. kind \notin Blocking /\ kind \notin Read
  BY <1>1, SortsApart DEF NngInv, OwnerInv, Receiving
<1>4. Called.at = "called" /\ Called.msg = 0
  BY DEF Called
<1>9. slot' \in Nat /\ \A c \in callbacks' : c.msg \in Nat
  BY <1>1, <1>2, <1>4 DEF HeardInv, QueueInv
<1>5. QueueInv'
  BY <1>1, <1>2, <1>4, <1>9 DEF HeardInv, QueueInv
<1>6. ReaderInv'
  BY <1>1, <1>3 DEF HeardInv, ReaderInv, BufferHolds
<1>7. ASSUME kind \in ByMessage
      PROVE  TurnsInv' /\ OnceInv'
  <2>1. \A c \in callbacks : c.at = "hand" /\ c.msg \in 1 .. Taken /\ c = [at |-> c.at, msg |-> c.msg]
    BY <1>1, <1>4, <1>7 DEF HeardInv, TurnsInv
  <2>2. TurnsInv'
    BY <1>1, <1>2, <1>4, <2>1 DEF TurnsInv
  <2>3. Called \notin callbacks
    BY <2>1, <1>4
  <2>4. /\ \A i \in 1 .. Len(handed) : handed[i] \in 1 .. Taken /\ ~Empty(handed[i])
        /\ \A i, j \in 1 .. Len(handed) : handed[i] = handed[j] => i = j
        /\ \A c \in callbacks : \A i \in 1 .. Len(handed) : handed[i] # c.msg
        /\ \A c, e \in callbacks : c.msg = e.msg => c = e
        /\ \A m \in 1 .. Taken :
              \/ Empty(m) \/ \E i \in 1 .. Len(handed) : handed[i] = m
              \/ \E c \in callbacks : c.msg = m
    BY <1>1, <1>7, <2>3 DEF HeardInv, OnceInv
  <2>5. /\ \A i \in 1 .. Len(handed) : handed[i] \in 1 .. Taken' /\ ~Empty(handed[i])
        /\ \A c \in callbacks' : \A i \in 1 .. Len(handed) : handed[i] # c.msg
        /\ \A c, e \in callbacks' : c.msg = e.msg => c = e
    BY <1>1, <1>2, <1>4, <2>1, <2>4
  <2>6. slot' \in 1 .. Taken' /\ slot' = Taken + 1
    BY <1>1, <1>2
  <2>7. /\ \A i \in 1 .. Len(handed) : handed[i] # slot'
        /\ \A c \in callbacks' : c.msg # slot'
    BY <1>1, <1>2, <1>4, <2>1, <2>4, <2>6
  <2>8. ASSUME NEW m \in 1 .. Taken'
        PROVE  \/ Empty(m) \/ \E i \in 1 .. Len(handed) : handed[i] = m
               \/ \E c \in callbacks' : c.msg = m
               \/ Called \in callbacks' /\ slot' = m
    <3>1. CASE m = Taken + 1
      BY <3>1, <1>1, <2>6
    <3>2. CASE m \in 1 .. Taken
      BY <3>2, <1>1, <2>4
    <3> QED
      BY <2>8, <3>1, <3>2, <1>2
  <2>9. OnceInv'
    BY <1>1, <2>4, <2>5, <2>6, <2>7, <2>8 DEF OnceInv, Called
  <2> QED
    BY <2>2, <2>9
<1>8. PullInv'
  <2>1. ~Unheard'
    BY <1>1, UnheardSame, ReceivingHeard DEF NngInv, Receiving
  <2> QED
    BY <1>1, <1>2, <1>4, <2>1 DEF HeardInv, PullInv
<1> QED
  BY <1>1, <1>5, <1>6, <1>7, <1>8 DEF HeardInv, TurnsInv, OnceInv

\* A receive fails only when the socket is closed, or is one that cannot receive.
LEMMA ReceiveFailsHeard == ASSUME NngInv, HeardInv, ReceiveFails PROVE HeardInv'
<1>1. /\ armed /\ armed' = FALSE
      /\ callbacks' = callbacks \cup {Called}
      /\ UNCHANGED <<kind, app, mSocket, arrived, inbox, handed, len, cap, held, relayed>>
  BY DEF ReceiveFails, ReceiveEnds, Called, owner, peer, reader
<1>2. (mSocket = 0 \/ kind \notin Hears) /\ slot' = 0
  BY DEF HeardInv, QueueInv, ReceiveFails, ReceiveEnds
<1>3. Called.at = "called" /\ Called.msg = 0 /\ Taken' = Taken
  BY <1>1 DEF Called, Taken
<1>7. slot' \in Nat /\ \A c \in callbacks' : c.msg \in Nat
  BY <1>1, <1>2, <1>3 DEF HeardInv, QueueInv
<1>4. QueueInv'
  BY <1>1, <1>3, <1>7 DEF HeardInv, QueueInv
<1>5. ReaderInv'
  BY <1>1, <1>3 DEF HeardInv, ReaderInv, BufferHolds
<1>6. TurnsInv' /\ OnceInv' /\ PullInv'
  BY <1>1, <1>2, SortsApart DEF TurnsInv, OnceInv, PullInv
<1> QED
  BY <1>4, <1>5, <1>6 DEF HeardInv

\* A callback takes the result: the message is in its hands instead of in the aio.
LEMMA TakeResultHeard ==
    ASSUME NngInv, HeardInv, NEW c \in callbacks, TakeResult(c) PROVE HeardInv'
<1>1. /\ c.at = "called" /\ kind \in ByMessage
      /\ UNCHANGED <<kind, app, pc, mSocket, arrived, inbox, armed, slot, handed,
                     len, cap, held, relayed>>
      /\ \/ slot = 0 /\ callbacks' = callbacks \ {c}
         \/ slot # 0 /\ callbacks' = (callbacks \ {c}) \cup {[at |-> "rearm", msg |-> slot]}
  BY DEF TakeResult, Returns, GoesOn, OwnerBut, peer, reader
<1>2. Taken' = Taken /\ kind \notin Read /\ kind # "AsyncPipelinePull" /\ kind \in Hears
  BY <1>1, SortsApart DEF Taken
<1>3. QueueInv'
  BY <1>1, <1>2 DEF HeardInv, QueueInv
<1>4. ReaderInv'
  BY <1>1, <1>2 DEF HeardInv, ReaderInv, BufferHolds
<1>5. PullInv'
  BY <1>1, <1>2 DEF PullInv
<1>6. ASSUME mSocket # 0
      PROVE  TurnsInv' /\ OnceInv'
  <2> DEFINE e == [at |-> "rearm", msg |-> slot]
  <2>0. e.at = "rearm" /\ e.msg = slot /\ e = [at |-> e.at, msg |-> e.msg] /\ Called.at = "called"
        /\ Called.msg = 0
    BY DEF Called
  <2>1. /\ armed => \A d \in callbacks : d.at = "hand"
        /\ \A b, d \in callbacks : b.at # "hand" /\ d.at # "hand" => b = d
        /\ \A d \in callbacks :
            \/ d = Called
            \/ d.at \in {"rearm", "hand"} /\ d.msg \in 1 .. Taken /\ d = [at |-> d.at, msg |-> d.msg]
    BY <1>1, <1>6 DEF HeardInv, TurnsInv
  <2>2. c = Called /\ ~armed /\ \A d \in callbacks \ {c} : d.at = "hand"
    BY <1>1, <2>1
  <2>3. /\ \A i \in 1 .. Len(handed) : handed[i] \in 1 .. Taken /\ ~Empty(handed[i])
        /\ \A i, j \in 1 .. Len(handed) : handed[i] = handed[j] => i = j
        /\ \A d \in callbacks : \A i \in 1 .. Len(handed) : handed[i] # d.msg
        /\ \A b, d \in callbacks : b.msg = d.msg => b = d
        /\ slot # 0 =>
              /\ slot \in 1 .. Taken
              /\ \A i \in 1 .. Len(handed) : handed[i] # slot
              /\ \A d \in callbacks : d.msg # slot
        /\ \A m \in 1 .. Taken :
              \/ Empty(m) \/ \E i \in 1 .. Len(handed) : handed[i] = m
              \/ \E d \in callbacks : d.msg = m
              \/ slot = m
    BY <1>1, <1>6, <2>2 DEF HeardInv, OnceInv
  <2> HIDE DEF e
  <2>4. Called \notin callbacks'
    BY <1>1, <2>0, <2>2 DEF e
  <2>5. TurnsInv'
    BY <1>1, <1>2, <2>0, <2>1, <2>2, <2>3 DEF TurnsInv, e
  <2>6. /\ \A d \in callbacks' : \A i \in 1 .. Len(handed) : handed[i] # d.msg
        /\ \A b, d \in callbacks' : b.msg = d.msg => b = d
    BY <1>1, <2>0, <2>3 DEF e
  <2>7. \A m \in 1 .. Taken :
            Empty(m) \/ (\E i \in 1 .. Len(handed) : handed[i] = m) \/ (\E d \in callbacks' : d.msg = m)
    <3> SUFFICES ASSUME NEW m \in 1 .. Taken, ~Empty(m),
                        ~\E i \in 1 .. Len(handed) : handed[i] = m
                 PROVE  \E d \in callbacks' : d.msg = m
      OBVIOUS
    <3>1. m # 0
      OBVIOUS
    <3>2. CASE slot = m
      BY <3>1, <3>2, <1>1, <2>0 DEF e
    <3>3. CASE \E d \in callbacks : d.msg = m
      BY <3>1, <3>3, <1>1, <2>0, <2>2
    <3> QED
      BY <3>2, <3>3, <2>3
  <2>8. OnceInv'
    BY <1>1, <1>2, <2>3, <2>4, <2>6, <2>7 DEF OnceInv, Called
  <2> QED
    BY <2>5, <2>8
<1> QED
  BY <1>1, <1>3, <1>4, <1>5, <1>6 DEF HeardInv, TurnsInv, OnceInv

\* It receives again, its message in its hands.
LEMMA RearmHeard ==
    ASSUME NngInv, HeardInv, NEW c \in callbacks, Rearm(c) PROVE HeardInv'
<1> DEFINE e == [at |-> "hand", msg |-> c.msg]
<1>1. /\ c.at = "rearm" /\ kind \in ByMessage
      /\ armed' \in BOOLEAN
      /\ callbacks' = (callbacks \ {c}) \cup {e}
      /\ UNCHANGED <<kind, app, pc, mSocket, arrived, inbox, slot, handed, len, cap, held, relayed>>
  BY DEF Rearm, RecvAio, GoesOn, owner, peer, reader
<1>2. Taken' = Taken /\ kind \notin Read /\ kind # "AsyncPipelinePull" /\ kind \in Hears
  BY <1>1, SortsApart DEF Taken
<1>3. QueueInv'
  BY <1>1, <1>2 DEF HeardInv, QueueInv
<1>4. ReaderInv'
  BY <1>1, <1>2 DEF HeardInv, ReaderInv, BufferHolds
<1>5. PullInv'
  BY <1>1, <1>2 DEF PullInv
<1>6. ASSUME mSocket # 0
      PROVE  TurnsInv' /\ OnceInv'
  <2>0. e.at = "hand" /\ e.msg = c.msg /\ e = [at |-> e.at, msg |-> e.msg] /\ Called.at = "called"
    BY DEF Called
  <2> HIDE DEF e
  <2>1. /\ \A b, d \in callbacks : b.at # "hand" /\ d.at # "hand" => b = d
        /\ \A d \in callbacks :
            \/ d = Called
            \/ d.at \in {"rearm", "hand"} /\ d.msg \in 1 .. Taken /\ d = [at |-> d.at, msg |-> d.msg]
    BY <1>1, <1>6 DEF HeardInv, TurnsInv
  <2>2. c.msg \in 1 .. Taken /\ \A d \in callbacks \ {c} : d.at = "hand"
    BY <1>1, <2>0, <2>1
  <2>3. Called \notin callbacks /\ Called \notin callbacks'
    BY <1>1, <2>0, <2>2
  <2>4. /\ \A i \in 1 .. Len(handed) : handed[i] \in 1 .. Taken /\ ~Empty(handed[i])
        /\ \A i, j \in 1 .. Len(handed) : handed[i] = handed[j] => i = j
        /\ \A d \in callbacks : \A i \in 1 .. Len(handed) : handed[i] # d.msg
        /\ \A b, d \in callbacks : b.msg = d.msg => b = d
        /\ \A m \in 1 .. Taken :
              Empty(m) \/ (\E i \in 1 .. Len(handed) : handed[i] = m) \/ (\E d \in callbacks : d.msg = m)
    BY <1>1, <1>6, <2>3 DEF HeardInv, OnceInv
  <2>5. TurnsInv'
    BY <1>1, <1>2, <2>0, <2>1, <2>2 DEF TurnsInv
  <2>6. /\ \A d \in callbacks' : \A i \in 1 .. Len(handed) : handed[i] # d.msg
        /\ \A b, d \in callbacks' : b.msg = d.msg => b = d
        /\ \A m \in 1 .. Taken :
              Empty(m) \/ (\E i \in 1 .. Len(handed) : handed[i] = m) \/ (\E d \in callbacks' : d.msg = m)
    BY <1>1, <2>0, <2>4
  <2>7. OnceInv'
    BY <1>1, <1>2, <2>3, <2>4, <2>6 DEF OnceInv, Called
  <2> QED
    BY <2>5, <2>7
<1> QED
  BY <1>1, <1>3, <1>4, <1>5, <1>6 DEF HeardInv, TurnsInv, OnceInv

\* The message in its hands is handed over, if there is anything in it.
LEMMA HandHeard ==
    ASSUME NngInv, HeardInv, NEW c \in callbacks, Hand(c) PROVE HeardInv'
<1>1. /\ c.at = "hand" /\ kind \in ByMessage
      /\ handed' = (IF Empty(c.msg) THEN handed ELSE Append(handed, c.msg))
      /\ callbacks' = callbacks \ {c}
      /\ UNCHANGED <<kind, app, pc, mSocket, arrived, inbox, armed, slot, len, cap, held, relayed>>
  BY DEF Hand, HandOver, Returns, OwnerBut, peer, reader
<1>2. Taken' = Taken /\ kind \notin Read /\ kind # "AsyncPipelinePull" /\ kind \in Hears
  BY <1>1, SortsApart DEF Taken
<1>4. ReaderInv'
  BY <1>1, <1>2 DEF HeardInv, ReaderInv, BufferHolds
<1>5. PullInv'
  BY <1>1, <1>2 DEF PullInv
<1>6. c.msg \in Nat /\ handed \in Seq(Nat)
  BY DEF HeardInv, QueueInv
<1>8. handed' \in Seq(Nat)
  BY <1>1, <1>6, AppendFacts
<1>3. QueueInv'
  BY <1>1, <1>2, <1>8 DEF HeardInv, QueueInv
<1>7. ASSUME mSocket # 0
      PROVE  TurnsInv' /\ OnceInv'
  <2>0. Called.at = "called"
    BY DEF Called
  <2>1. /\ armed => \A d \in callbacks : d.at = "hand"
        /\ \A b, d \in callbacks : b.at # "hand" /\ d.at # "hand" => b = d
        /\ \A d \in callbacks :
            \/ d = Called
            \/ d.at \in {"rearm", "hand"} /\ d.msg \in 1 .. Taken /\ d = [at |-> d.at, msg |-> d.msg]
    BY <1>1, <1>7 DEF HeardInv, TurnsInv
  <2>2. TurnsInv'
    BY <1>1, <1>2, <2>1 DEF TurnsInv
  <2>3. c.msg \in 1 .. Taken /\ c # Called
    BY <1>1, <2>0, <2>1
  <2>4. /\ \A i \in 1 .. Len(handed) : handed[i] \in 1 .. Taken /\ ~Empty(handed[i])
        /\ \A i, j \in 1 .. Len(handed) : handed[i] = handed[j] => i = j
        /\ \A d \in callbacks : \A i \in 1 .. Len(handed) : handed[i] # d.msg
        /\ \A b, d \in callbacks : b.msg = d.msg => b = d
        /\ Called \in callbacks /\ slot # 0 =>
              /\ slot \in 1 .. Taken
              /\ \A i \in 1 .. Len(handed) : handed[i] # slot
              /\ \A d \in callbacks : d.msg # slot
        /\ \A m \in 1 .. Taken :
              \/ Empty(m) \/ \E i \in 1 .. Len(handed) : handed[i] = m
              \/ \E d \in callbacks : d.msg = m
              \/ Called \in callbacks /\ slot = m
    BY <1>1, <1>7 DEF HeardInv, OnceInv
  <2>5. CASE Empty(c.msg)
    <3>1. handed' = handed
      BY <1>1, <2>5
    <3>2. /\ \A d \in callbacks' : \A i \in 1 .. Len(handed) : handed[i] # d.msg
          /\ \A b, d \in callbacks' : b.msg = d.msg => b = d
          /\ Called \in callbacks' /\ slot # 0 =>
                /\ slot \in 1 .. Taken
                /\ \A i \in 1 .. Len(handed) : handed[i] # slot
                /\ \A d \in callbacks' : d.msg # slot
      BY <1>1, <2>4
    <3>3. ASSUME NEW m \in 1 .. Taken
          PROVE  \/ Empty(m) \/ \E i \in 1 .. Len(handed) : handed[i] = m
                 \/ \E d \in callbacks' : d.msg = m
                 \/ Called \in callbacks' /\ slot = m
      <4>1. CASE \E d \in callbacks : d.msg = m
        <5>1. PICK d \in callbacks : d.msg = m
          BY <4>1
        <5>2. CASE d = c
          BY <2>5, <5>1, <5>2
        <5>3. CASE d # c
          BY <1>1, <5>1, <5>3
        <5> QED
          BY <5>2, <5>3
      <4>2. CASE Called \in callbacks /\ slot = m
        BY <4>2, <1>1, <2>3
      <4>3. \/ Empty(m) \/ \E i \in 1 .. Len(handed) : handed[i] = m
            \/ \E d \in callbacks : d.msg = m
            \/ Called \in callbacks /\ slot = m
        BY <2>4, <3>3
      <4> QED
        BY <4>1, <4>2, <4>3
    <3> QED
      BY <1>1, <1>2, <2>2, <2>4, <3>1, <3>2, <3>3 DEF OnceInv, Called
  <2>6. CASE ~Empty(c.msg)
    <3>1. /\ Len(handed') = Len(handed) + 1 /\ Len(handed) \in Nat
          /\ \A i \in 1 .. Len(handed) : handed'[i] = handed[i]
          /\ handed'[Len(handed) + 1] = c.msg
      BY <1>1, <1>6, <2>6, AppendFacts
    <3>2. \A i \in 1 .. Len(handed') : i \in 1 .. Len(handed) \/ i = Len(handed) + 1
      BY <3>1
    <3>3. /\ \A i \in 1 .. Len(handed') : handed'[i] \in 1 .. Taken /\ ~Empty(handed'[i])
          /\ \A i, j \in 1 .. Len(handed') : handed'[i] = handed'[j] => i = j
      BY <1>1, <2>3, <2>4, <2>6, <3>1, <3>2
    <3>4. /\ \A d \in callbacks' : \A i \in 1 .. Len(handed') : handed'[i] # d.msg
          /\ \A b, d \in callbacks' : b.msg = d.msg => b = d
          /\ Called \in callbacks' /\ slot # 0 =>
                /\ slot \in 1 .. Taken
                /\ \A i \in 1 .. Len(handed') : handed'[i] # slot
                /\ \A d \in callbacks' : d.msg # slot
      BY <1>1, <2>3, <2>4, <3>1, <3>2
    <3>5. ASSUME NEW m \in 1 .. Taken
          PROVE  \/ Empty(m) \/ \E i \in 1 .. Len(handed') : handed'[i] = m
                 \/ \E d \in callbacks' : d.msg = m
                 \/ Called \in callbacks' /\ slot = m
      <4>1. Len(handed) + 1 \in 1 .. Len(handed') /\ 1 .. Len(handed) \subseteq 1 .. Len(handed')
        BY <3>1
      <4>2. CASE m = c.msg
        BY <4>1, <4>2, <3>1
      <4>3. CASE \E i \in 1 .. Len(handed) : handed[i] = m
        BY <4>1, <4>3, <3>1
      <4>4. CASE \E d \in callbacks : d.msg = m
        BY <4>2, <4>4, <1>1
      <4>5. CASE Called \in callbacks /\ slot = m
        BY <4>5, <1>1, <2>3
      <4>6. \/ Empty(m) \/ \E i \in 1 .. Len(handed) : handed[i] = m
            \/ \E d \in callbacks : d.msg = m
            \/ Called \in callbacks /\ slot = m
        BY <2>4, <3>5
      <4> QED
        BY <4>2, <4>3, <4>4, <4>5, <4>6
    <3> QED
      BY <1>1, <1>2, <2>2, <3>3, <3>4, <3>5 DEF OnceInv, Called
  <2> QED
    BY <2>2, <2>5, <2>6
<1> QED
  BY <1>1, <1>3, <1>4, <1>5, <1>7 DEF HeardInv, TurnsInv, OnceInv

\* A pipeline looks at the result only: the message it came with is lost.
LEMMA LookAtResultHeard ==
    ASSUME NngInv, HeardInv, NEW c \in callbacks, LookAtResult(c) PROVE HeardInv'
<1> DEFINE e == [at |-> "receive", msg |-> 0]
<1>1. /\ c.at = "called" /\ kind \notin ByMessage
      /\ callbacks' \in {callbacks \ {c}, (callbacks \ {c}) \cup {e}}
      /\ UNCHANGED <<kind, app, pc, mSocket, arrived, inbox, armed, slot, handed,
                     len, cap, held, relayed>>
  BY DEF LookAtResult, Returns, GoesOn, OwnerBut, peer, reader
<1>2. e.at = "receive" /\ e.msg = 0 /\ Taken' = Taken
  BY <1>1 DEF Taken
<1> HIDE DEF e
<1>3. \A d \in callbacks' : d \in callbacks \/ d = e
  BY <1>1
<1>4. QueueInv'
  BY <1>1, <1>2, <1>3 DEF HeardInv, QueueInv
<1>5. ReaderInv'
  BY <1>1, <1>2 DEF HeardInv, ReaderInv, BufferHolds
<1>6. TurnsInv' /\ OnceInv'
  BY <1>1 DEF TurnsInv, OnceInv
<1>7. PullInv'
  <2>1. kind = "AsyncPipelinePull" /\ mSocket # 0 =>
           /\ ~armed /\ callbacks = {c} /\ Taken = 2 * Len(handed) + 1
    BY <1>1 DEF HeardInv, PullInv
  <2>2. kind = "AsyncPipelinePull" /\ mSocket # 0 => callbacks' \subseteq {e}
    BY <1>1, <2>1
  <2>3. Unheard' <=> Unheard
    BY <1>1, UnheardSame
  <2> QED
    BY <1>1, <1>2, <2>1, <2>2, <2>3 DEF HeardInv, PullInv
<1> QED
  BY <1>4, <1>5, <1>6, <1>7 DEF HeardInv

\* It receives another message, the one it will hand over.
LEMMA ReceiveAnotherHeard ==
    ASSUME NngInv, HeardInv, NEW c \in callbacks, ReceiveAnother(c) PROVE HeardInv'
<1>1. /\ c.at = "receive"
      /\ UNCHANGED <<kind, app, pc, mSocket, arrived, armed, slot, handed, len, cap, held, relayed>>
  BY DEF ReceiveAnother, owner, peer, reader
<1>2. ASSUME mSocket = 0, callbacks' = callbacks \ {c}, UNCHANGED inbox PROVE HeardInv'
  <2>1. Taken' = Taken
    BY <1>1, <1>2 DEF Taken
  <2>2. QueueInv'
    BY <1>1, <1>2, <2>1 DEF HeardInv, QueueInv
  <2>3. ReaderInv'
    BY <1>1, <2>1 DEF HeardInv, ReaderInv, BufferHolds
  <2> QED
    BY <1>1, <1>2, <2>2, <2>3 DEF HeardInv, TurnsInv, OnceInv, PullInv
<1>3. ASSUME mSocket # 0, inbox # <<>>, inbox' = Tail(inbox),
             callbacks' = (callbacks \ {c}) \cup {[at |-> "hand", msg |-> Head(inbox)]}
      PROVE  HeardInv'
  <2> DEFINE e == [at |-> "hand", msg |-> Head(inbox)]
  <2>1. /\ Taken \in Nat /\ Head(inbox) = Taken + 1 /\ Taken' = Taken + 1
        /\ Head(inbox) \in 1 .. MaxMsgs
        /\ inbox' \in Seq(Nat) /\ Len(inbox') <= arrived'
        /\ \A i \in 1 .. Len(inbox') : inbox'[i] = Taken' + i
    BY <1>1, <1>3, NextTaken DEF HeardInv
  <2>2. e.at = "hand" /\ e.msg = Taken' /\ e.msg \in Nat
    BY <2>1
  <2>3. callbacks' = (callbacks \ {c}) \cup {e}
    BY <1>3
  <2> HIDE DEF e
  <2>4. kind \in Hears \cup Read
    <3> SUFFICES ASSUME kind \notin Hears \cup Read PROVE FALSE
      OBVIOUS
    <3>1. arrived = 0
      BY DEF HeardInv, QueueInv
    <3> QED
      BY <3>1, <2>1, <1>3, TailFacts DEF HeardInv, QueueInv
  <2>5. kind = "AsyncPipelinePull"
    <3>1. kind \notin Blocking
      BY DEF NngInv, OwnerInv, Receiving
    <3>2. kind \notin ByMessage
      BY <1>1, <1>3 DEF HeardInv, TurnsInv, Called
    <3> QED
      BY <2>4, <3>1, <3>2, SortsApart
  <2>6. kind \notin ByMessage \cup Read
    BY <2>5, SortsApart
  <2>7. QueueInv'
    BY <1>1, <2>1, <2>2, <2>3, <2>4 DEF HeardInv, QueueInv
  <2>8. ReaderInv'
    BY <1>1, <2>6 DEF HeardInv, ReaderInv, BufferHolds
  <2>9. TurnsInv' /\ OnceInv'
    BY <1>1, <2>6 DEF TurnsInv, OnceInv
  <2>10. PullInv'
    <3>1. ~Unheard'
      BY <1>1, UnheardSame, ReceivingHeard DEF NngInv, Receiving
    <3>2. callbacks = {c} /\ ~armed /\ Taken = 2 * Len(handed) + 1
          /\ \A i \in 1 .. Len(handed) : handed[i] = 2 * i
      BY <1>1, <1>3, <2>5 DEF HeardInv, PullInv
    <3>3. callbacks' = {e}
      BY <2>3, <3>2
    <3>4. Len(handed) \in Nat
      BY DEF HeardInv, QueueInv
    <3>5. Taken' = 2 * Len(handed) + 2
      BY <2>1, <3>2, <3>4
    <3> QED
      BY <1>1, <2>2, <3>1, <3>2, <3>3, <3>5 DEF PullInv
  <2> QED
    BY <2>7, <2>8, <2>9, <2>10 DEF HeardInv
<1> QED
  BY <1>2, <1>3 DEF ReceiveAnother, Returns, GoesOn

\* It hands the message over and receives again.
LEMMA HandAndRearmHeard ==
    ASSUME NngInv, HeardInv, NEW c \in callbacks, HandAndRearm(c) PROVE HeardInv'
<1>1. /\ c.at = "hand" /\ kind \notin ByMessage /\ armed' \in BOOLEAN
      /\ handed' = Append(handed, c.msg) /\ callbacks' = callbacks \ {c}
      /\ UNCHANGED <<kind, app, pc, mSocket, arrived, inbox, slot, len, cap, held, relayed>>
  BY DEF HandAndRearm, HandOver, RecvAio, Returns, owner, peer, reader
<1>2. Taken' = Taken /\ kind \notin Read /\ kind = "AsyncPipelinePull"
  <2>1. kind \in Hears \cup Read
    BY <1>1 DEF HeardInv, QueueInv
  <2>2. kind \notin Blocking
    BY DEF NngInv, OwnerInv, Receiving
  <2> QED
    BY <1>1, <2>1, <2>2, SortsApart DEF Taken
<1>3. c.msg \in Nat /\ handed \in Seq(Nat)
  BY DEF HeardInv, QueueInv
<1>4. /\ handed' \in Seq(Nat) /\ Len(handed') = Len(handed) + 1 /\ Len(handed) \in Nat
      /\ \A i \in 1 .. Len(handed) : handed'[i] = handed[i]
      /\ handed'[Len(handed) + 1] = c.msg
  BY <1>1, <1>3, AppendFacts
<1>5. QueueInv'
  BY <1>1, <1>2, <1>4, SortsApart DEF HeardInv, QueueInv
<1>6. ReaderInv'
  BY <1>1, <1>2 DEF HeardInv, ReaderInv, BufferHolds
<1>7. TurnsInv' /\ OnceInv'
  BY <1>1 DEF TurnsInv, OnceInv
<1>8. PullInv'
  <2> SUFFICES ASSUME mSocket # 0 PROVE PullInv'
    BY <1>1 DEF PullInv
  <2>1. ~Unheard'
    BY <1>1, UnheardSame, ReceivingHeard DEF NngInv, Receiving
  <2>2. callbacks = {c} /\ c.msg = Taken /\ Taken = 2 * Len(handed) + 2
        /\ \A i \in 1 .. Len(handed) : handed[i] = 2 * i
    BY <1>1, <1>2 DEF HeardInv, PullInv
  <2>3. \A i \in 1 .. Len(handed') : i \in 1 .. Len(handed) \/ i = Len(handed) + 1
    BY <1>4
  <2>4. ASSUME NEW i \in 1 .. Len(handed') PROVE handed'[i] = 2 * i
    <3>1. CASE i \in 1 .. Len(handed)
      BY <3>1, <1>4, <2>2
    <3>2. CASE i = Len(handed) + 1
      <4>1. handed'[i] = 2 * Len(handed) + 2 /\ Len(handed) \in Nat
        BY <3>2, <1>4, <2>2
      <4> QED
        BY <4>1, <3>2
    <3> QED
      BY <2>3, <2>4, <3>1, <3>2
  <2>5. callbacks' = {} /\ Taken' = 2 * Len(handed')
    BY <1>1, <1>2, <1>4, <2>2
  <2> QED
    BY <2>1, <2>4, <2>5 DEF PullInv
<1> QED
  BY <1>5, <1>6, <1>7, <1>8 DEF HeardInv

\* A reader reads the next message into its buffer, which grows to what the message
\* needs.
LEMMA ReadMessageHeard == ASSUME NngInv, HeardInv, ReadMessage PROVE HeardInv'
<1> DEFINE m == Head(inbox)
<1>1. /\ app = "up" /\ kind \in Read /\ held = 0 /\ inbox # <<>> /\ inbox' = Tail(inbox)
      /\ cap' = (IF Size[m] > len THEN Size[m] ELSE cap) /\ len' = Size[m] /\ held' = m
      /\ handed' = Append(handed, m)
      /\ UNCHANGED <<kind, app, pc, mSocket, arrived, armed, slot, callbacks, relayed>>
  BY DEF ReadMessage, owner, peer
<1>2. /\ Taken \in Nat /\ m = Taken + 1 /\ Taken' = Taken + 1 /\ m \in 1 .. MaxMsgs
      /\ inbox' \in Seq(Nat) /\ Len(inbox') <= arrived'
      /\ \A i \in 1 .. Len(inbox') : inbox'[i] = Taken' + i
  BY <1>1, NextTaken DEF HeardInv
<1>3. Size[m] \in Nat /\ m \in Nat /\ handed \in Seq(Nat)
  BY <1>2, ConnectorAssumption DEF ConnectorAssumption, HeardInv, QueueInv
<1> HIDE DEF m
<1>4. /\ handed' \in Seq(Nat) /\ Len(handed') = Len(handed) + 1 /\ Len(handed) \in Nat
      /\ \A i \in 1 .. Len(handed) : handed'[i] = handed[i]
      /\ handed'[Len(handed) + 1] = m
  BY <1>1, <1>3, AppendFacts
<1>5. QueueInv'
  BY <1>1, <1>2, <1>4 DEF HeardInv, QueueInv
<1>6. ReaderInv'
  <2>1. /\ Len(handed) = Taken /\ \A i \in 1 .. Len(handed) : handed[i] = i
        /\ \A i \in 1 .. Len(relayed) :
              relayed[i] \in 1 .. Taken /\ (i > 1 => relayed[i - 1] < relayed[i])
        /\ relayed \in Seq(Nat) /\ len \in Nat /\ cap \in Nat /\ len <= cap
    BY <1>1 DEF HeardInv, ReaderInv, BufferHolds
  <2>2. \A i \in 1 .. Len(handed') : i \in 1 .. Len(handed) \/ i = Len(handed) + 1
    BY <1>4
  <2>3. Len(handed') = Taken' /\ \A i \in 1 .. Len(handed') : handed'[i] = i
    BY <1>2, <1>4, <2>1, <2>2
  <2>4. \A i \in 1 .. Len(relayed) : relayed[i] \in 1 .. Taken' /\ relayed[i] < m
    BY <1>2, <2>1
  <2>5. len' \in Nat /\ cap' \in Nat /\ len' <= cap' /\ Size[m] <= cap'
    BY <1>1, <1>3, <2>1
  <2>6. BufferHolds'
    BY <1>1, <2>5 DEF BufferHolds
  <2> QED
    BY <1>1, <1>2, <1>3, <2>1, <2>3, <2>4, <2>5, <2>6 DEF ReaderInv
<1>7. TurnsInv' /\ OnceInv' /\ PullInv'
  BY <1>1, SortsApart DEF TurnsInv, OnceInv, PullInv
<1> QED
  BY <1>5, <1>6, <1>7 DEF HeardInv

\* What a reader does with the message: the buffer is free again.
LEMMA UsedHeard == ASSUME HeardInv, Relay \/ ShowMessage PROVE HeardInv'
<1>1. /\ held # 0 /\ held' = 0
      /\ relayed' = relayed \/ relayed' = Append(relayed, held)
      /\ UNCHANGED <<kind, app, pc, mSocket, arrived, inbox, armed, slot, callbacks, handed, len, cap>>
  BY DEF Relay, ShowMessage, owner, peer, net
<1>2. /\ kind \in Read /\ app = "up" /\ held = Taken /\ held \in Nat
      /\ relayed \in Seq(Nat)
      /\ \A i \in 1 .. Len(relayed) :
            /\ relayed[i] \in 1 .. Taken /\ relayed[i] < held
            /\ i > 1 => relayed[i - 1] < relayed[i]
  BY <1>1 DEF HeardInv, ReaderInv
<1>3. Taken' = Taken
  BY <1>1 DEF Taken
<1>4. QueueInv'
  BY <1>1, <1>3 DEF HeardInv, QueueInv
<1>5. relayed' \in Seq(Nat)
      /\ \A i \in 1 .. Len(relayed') :
            relayed'[i] \in 1 .. Taken /\ (i > 1 => relayed'[i - 1] < relayed'[i])
  <2>1. CASE relayed' = relayed
    BY <2>1, <1>2
  <2>2. CASE relayed' = Append(relayed, held)
    <3>1. /\ relayed' \in Seq(Nat) /\ Len(relayed') = Len(relayed) + 1 /\ Len(relayed) \in Nat
          /\ \A i \in 1 .. Len(relayed) : relayed'[i] = relayed[i]
          /\ relayed'[Len(relayed) + 1] = held
      BY <2>2, <1>2, AppendFacts
    <3>2. held \in 1 .. Taken
      BY <1>1, <1>2
    <3>3. ASSUME NEW i \in 1 .. Len(relayed')
          PROVE  relayed'[i] \in 1 .. Taken /\ (i > 1 => relayed'[i - 1] < relayed'[i])
      <4>1. CASE i \in 1 .. Len(relayed)
        <5>1. i > 1 => i - 1 \in 1 .. Len(relayed)
          BY <4>1, <3>1
        <5> QED
          BY <4>1, <5>1, <1>2, <3>1
      <4>2. CASE i = Len(relayed) + 1
        <5>1. i > 1 => i - 1 \in 1 .. Len(relayed)
          BY <4>2, <3>1
        <5> QED
          BY <4>2, <5>1, <1>2, <3>1, <3>2
      <4> QED
        BY <3>3, <4>1, <4>2, <3>1
    <3> QED
      BY <3>1, <3>3
  <2> QED
    BY <1>1, <2>1, <2>2
<1>6. ReaderInv'
  BY <1>1, <1>2, <1>3, <1>5 DEF HeardInv, ReaderInv, BufferHolds
<1>7. TurnsInv' /\ OnceInv' /\ PullInv'
  BY <1>1, <1>2, SortsApart DEF TurnsInv, OnceInv, PullInv
<1> QED
  BY <1>4, <1>6, <1>7 DEF HeardInv

\* A call that succeeds keeps what is heard, and a started receive comes last.
LEMMA CallHeard == ASSUME NngInv, HeardInv, CallSucceeds PROVE HeardInv'
<1>1. /\ Call = "open" => pc = 1
      /\ \A call : Has(Steps[kind], call, pc + 1) <=> Made(call) \/ Call = call
  BY CallFacts DEF NngInv, CallSucceeds
<1>2. /\ app = "starting" /\ app' \in {"up", "starting"} /\ pc' = pc + 1 /\ UNCHANGED kind
  BY DEF CallSucceeds
<1>3. CASE Call = "open"
  BY <1>1, <1>2, <1>3, OpenHeard DEF CallSucceeds
<1>4. CASE Call = "recv"
  BY <1>2, <1>4, FirstReceiveHeard DEF CallSucceeds
<1>5. CASE Call \notin {"open", "recv"}
  <2>1. UNCHANGED <<mSocket, arrived, inbox, armed, slot, callbacks, handed, reader>>
    BY <1>5 DEF CallSucceeds, AllocAio, SetStarted, peer, net
  <2>2. Unheard' => Unheard
    BY <1>1, <1>2 DEF Unheard, Made
  <2>3. held = 0 /\ relayed = <<>>
    BY <1>2 DEF HeardInv, ReaderInv
  <2> QED
    BY <1>2, <2>1, <2>2, <2>3, OwnerKeepsHeard
<1> QED
  BY <1>3, <1>4, <1>5

\* A call that fails leaves what was heard as it was.
LEMMA CallFailsHeard == ASSUME NngInv, HeardInv, CallFails PROVE HeardInv'
<1>1. /\ app = "starting" /\ app' = "failed" /\ mSocket' \in {mSocket, 0}
      /\ UNCHANGED <<kind, arrived, inbox, armed, slot, callbacks, handed, reader>>
  BY DEF CallFails, Release, peer, net
<1>2. Unheard
  BY <1>1, CallFacts DEF NngInv, CallFails, Unheard
<1>3. held = 0 /\ relayed = <<>>
  BY <1>1 DEF HeardInv, ReaderInv
<1> QED
  BY <1>1, <1>2, <1>3, OwnerKeepsHeard

\* A connector that is stopped or deleted is none of a reader's.
LEMMA StopHeard ==
    ASSUME HeardInv, CallStart \/ CallStop \/ Stop \/ Delete \/ DeleteBlocking
    PROVE  HeardInv'
<1>1. UNCHANGED <<kind, arrived, inbox, armed, slot, callbacks, handed, reader>>
  BY DEF CallStart, CallStop, Stop, StopAio, AioStopped, Delete, DeleteBlocking, peer, net
<1>2. kind \notin Read \/ app # "up"
  BY SortsApart DEF CallStart, CallStop, Stop, StopAio, AioStopped, Delete, DeleteBlocking
<1>3. held = 0 /\ relayed = <<>>
  BY <1>2 DEF HeardInv, ReaderInv
<1>4. app \in {"closing", "joining", "down"} => mSocket = 0
  BY DEF HeardInv, QueueInv
<1>5. /\ mSocket' \in {mSocket, 0}
      /\ app' # "none"
      /\ app' \in {"closing", "joining", "down"} => mSocket' = 0
      /\ Unheard' => Unheard
  BY <1>4 DEF CallStart, CallStop, Stop, StopAio, AioStopped, Delete, DeleteBlocking, Unheard
<1> QED
  BY <1>1, <1>3, <1>5, OwnerKeepsHeard

\* A peer that comes or goes tells the connector of no message.
LEMMA PeerHeard == ASSUME HeardInv, Connect \/ Disconnect \/ UNCHANGED vars PROVE HeardInv'
<1>1. UNCHANGED <<kind, app, pc, mSocket, arrived, inbox, armed, slot, callbacks, handed, reader>>
  BY DEF Connect, Disconnect, vars, owner, peer, net
<1>2. Unheard' <=> Unheard
  BY <1>1, UnheardSame
<1> QED
  BY <1>1, <1>2, OwnerKeepsHeard DEF HeardInv, QueueInv, ReaderInv

\* Every step keeps the relation of messages to callbacks.
LEMMA HeardStep == NngInv /\ HeardInv /\ [Next]_vars => HeardInv'
BY NewHeard, CallHeard, CallFailsHeard, StopHeard, PeerHeard, ArriveHeard, ReceivedHeard,
   ReceiveFailsHeard, TakeResultHeard, RearmHeard, HandHeard, LookAtResultHeard,
   ReceiveAnotherHeard, HandAndRearmHeard, ReadMessageHeard, UsedHeard
   DEF Next, AsyncReadMsg, Callback

\* HeardInv is an invariant of a connector.
LEMMA HeardInvariant == Spec => []HeardInv
BY NngInvariant, HeardInitial, HeardStep, PTL DEF Spec

\* A message of a pair or subscriber is in exactly one place, unless it is empty: then
\* it may be gone.
LEMMA OnePlace ==
    ASSUME HeardInv, kind \in ByMessage, mSocket # 0, NEW m \in 1 .. arrived
    PROVE  (\E x : Places(m) = {x}) \/ (Empty(m) /\ Places(m) = {})
<1> DEFINE H == {<<"handed", i>> : i \in {j \in DOMAIN handed : handed[j] = m}}
           C == {c \in callbacks : c.msg = m}
           A == IF slot = m THEN {c \in callbacks : c.at = "called"} ELSE {}
           Q == {<<"inbox", i>> : i \in {j \in DOMAIN inbox : inbox[j] = m}}
<1>1. Places(m) = ((H \cup C) \cup A) \cup Q
  BY DEF Places
<1>2. /\ arrived \in Nat /\ Len(inbox) <= arrived /\ Len(inbox) \in Nat
      /\ Taken \in Nat /\ arrived = Taken + Len(inbox)
      /\ DOMAIN inbox = 1 .. Len(inbox) /\ DOMAIN handed = 1 .. Len(handed)
      /\ \A i \in 1 .. Len(inbox) : inbox[i] = Taken + i
  BY DEF HeardInv, QueueInv, Taken
<1>3. /\ \A i \in 1 .. Len(handed) : handed[i] \in 1 .. Taken /\ ~Empty(handed[i])
      /\ \A i, j \in 1 .. Len(handed) : handed[i] = handed[j] => i = j
      /\ \A c \in callbacks : \A i \in 1 .. Len(handed) : handed[i] # c.msg
      /\ \A c, e \in callbacks : c.msg = e.msg => c = e
      /\ Called \in callbacks /\ slot # 0 =>
            /\ slot \in 1 .. Taken
            /\ \A i \in 1 .. Len(handed) : handed[i] # slot
            /\ \A c \in callbacks : c.msg # slot
      /\ \A k \in 1 .. Taken :
            \/ Empty(k) \/ \E i \in 1 .. Len(handed) : handed[i] = k
            \/ \E c \in callbacks : c.msg = k
            \/ Called \in callbacks /\ slot = k
  BY DEF HeardInv, OnceInv
<1>4. /\ Called.at = "called" /\ Called.msg = 0
      /\ \A c \in callbacks : c = Called \/ (c.at # "called" /\ c.msg \in 1 .. Taken)
  BY DEF HeardInv, TurnsInv, Called
<1>5. m \in Nat /\ m # 0
  OBVIOUS
<1>6. CASE m > Taken
  <2>1. H = {}
    BY <1>2, <1>3, <1>5, <1>6
  <2>2. C = {}
    BY <1>2, <1>4, <1>5, <1>6
  <2>3. A = {}
    BY <1>2, <1>3, <1>4, <1>5, <1>6
  <2>4. m - Taken \in 1 .. Len(inbox) /\ inbox[m - Taken] = m
    BY <1>2, <1>5, <1>6
  <2>5. \A i \in 1 .. Len(inbox) : inbox[i] = m => i = m - Taken
    BY <1>2, <1>5
  <2>6. {j \in DOMAIN inbox : inbox[j] = m} = {m - Taken}
    BY <1>2, <2>4, <2>5
  <2>7. Q = {<<"inbox", m - Taken>>}
    BY <2>6
  <2> QED
    BY <1>1, <2>1, <2>2, <2>3, <2>7
<1>7. CASE m \in 1 .. Taken
  <2>1. Q = {}
    BY <1>2, <1>5, <1>7
  <2>2. A = IF slot = m /\ Called \in callbacks THEN {Called} ELSE {}
    BY <1>4
  <2>3. CASE \E i \in 1 .. Len(handed) : handed[i] = m
    <3>1. PICK i \in 1 .. Len(handed) : handed[i] = m
      BY <2>3
    <3>2. {j \in DOMAIN handed : handed[j] = m} = {i}
      BY <1>2, <1>3, <3>1
    <3>3. H = {<<"handed", i>>}
      BY <3>2
    <3>4. C = {} /\ A = {}
      BY <1>3, <1>5, <2>2, <3>1
    <3> QED
      BY <1>1, <2>1, <3>3, <3>4
  <2>4. CASE \E c \in callbacks : c.msg = m
    <3>1. PICK c \in callbacks : c.msg = m
      BY <2>4
    <3>2. C = {c} /\ H = {}
      BY <1>2, <1>3, <3>1
    <3>3. A = {}
      BY <1>3, <1>5, <2>2, <3>1
    <3> QED
      BY <1>1, <2>1, <3>2, <3>3
  <2>5. CASE Called \in callbacks /\ slot = m
    <3>1. H = {} /\ C = {} /\ A = {Called}
      BY <1>2, <1>3, <1>5, <2>2, <2>5
    <3> QED
      BY <1>1, <2>1, <3>1
  <2>6. CASE /\ Empty(m) /\ ~\E i \in 1 .. Len(handed) : handed[i] = m
             /\ ~\E c \in callbacks : c.msg = m
             /\ ~(Called \in callbacks /\ slot = m)
    <3>1. H = {} /\ C = {} /\ A = {}
      BY <1>2, <2>2, <2>6
    <3> QED
      BY <1>1, <2>1, <2>6, <3>1
  <2> QED
    BY <1>3, <1>7, <2>3, <2>4, <2>5, <2>6
<1>8. m > Taken \/ m \in 1 .. Taken
  BY <1>2, <1>5
<1> QED
  BY <1>6, <1>7, <1>8

\* What the receiver's function gets, of every class, whatever the sizes of the
\* messages and the order in which callbacks overlap: a pair or subscriber each
\* message that is not empty once, a pipeline every second one in order, a reader
\* all in order, the others none.
THEOREM HeardOnce == Spec => []Heard
<1>1. NngInv /\ HeardInv => Heard
  <2> SUFFICES ASSUME NngInv, HeardInv, mSocket # 0 PROVE Heard
    BY DEF Heard
  <2>1. handed \in Seq(Nat) /\ DOMAIN handed = 1 .. Len(handed)
    BY DEF HeardInv, QueueInv
  <2>2. CASE kind \in ByMessage
    <3>1. \A m \in 1 .. arrived : Cardinality(Places(m)) = 1 \/ (Empty(m) /\ Places(m) = {})
      BY <2>2, OnePlace, FS_Singleton
    <3>2. \A i \in DOMAIN handed : ~Empty(handed[i])
      BY <2>1, <2>2 DEF HeardInv, OnceInv
    <3> QED
      BY <2>2, <3>1, <3>2 DEF Heard
  <2>3. CASE kind \in Read
    BY <2>1, <2>3, SortsApart DEF HeardInv, ReaderInv, Heard
  <2>4. CASE kind = "AsyncPipelinePull"
    <3>1. \A i \in DOMAIN handed : handed[i] = 2 * i
      BY <2>1, <2>4 DEF HeardInv, PullInv
    <3> QED
      BY <2>4, <3>1, SortsApart DEF Heard
  <2>5. CASE kind \notin Hears \cup Read
    BY <2>1, <2>5, SortsApart DEF HeardInv, QueueInv, Heard
  <2> QED
    BY <2>2, <2>3, <2>4, <2>5, SortsApart
<1> QED
  BY <1>1, NngInvariant, HeardInvariant, PTL

\* Repeater publishes a message only after it has read it, each at most once and
\* in the order they came, whichever of them its publisher drops.
THEOREM RelayedInOrder == Spec => []RelaysInOrder
<1>1. HeardInv => RelaysInOrder
  <2> SUFFICES ASSUME HeardInv, NEW i \in DOMAIN relayed
               PROVE  /\ \E j \in DOMAIN handed : handed[j] = relayed[i]
                      /\ i > 1 => relayed[i - 1] < relayed[i]
    BY DEF RelaysInOrder
  <2>1. /\ DOMAIN handed = 1 .. Len(handed) /\ relayed # <<>> /\ i \in 1 .. Len(relayed)
    BY DEF HeardInv, QueueInv, ReaderInv
  <2>2. /\ Len(handed) = Taken /\ \A j \in 1 .. Len(handed) : handed[j] = j
        /\ relayed[i] \in 1 .. Taken /\ (i > 1 => relayed[i - 1] < relayed[i])
    BY <2>1 DEF HeardInv, ReaderInv
  <2> QED
    BY <2>1, <2>2
<1> QED
  BY <1>1, HeardInvariant, PTL

\* Whatever the sizes of the messages and the order they come in, no message is
\* copied past the end of a reader's buffer.
THEOREM BufferNeverOverrun == Spec => []BufferHolds
<1>1. HeardInv => BufferHolds
  BY DEF HeardInv, ReaderInv
<1> QED
  BY <1>1, HeardInvariant, PTL

-----------------------------------------------------------------------------
(* The ping server.                                                        *)

Waits == {w \in Works : work[w] = "WAIT"}

\* Every work receives or waits, and no operation would end the wait.
PingInv ==
    /\ work \in [Works -> {"RECV", "WAIT"}]
    /\ pinged \in 0 .. MaxPings /\ waiting \in 0 .. pinged
    /\ PingsUseUpWorks

\* PingInv holds initially, with every work receiving.
LEMMA PingInitial == PingInit => PingInv
<1> SUFFICES ASSUME PingInit PROVE PingInv
  OBVIOUS
<1>1. work \in [Works -> {"RECV", "WAIT"}] /\ \A w \in Works : work[w] = "RECV"
  BY DEF PingInit
<1>2. {w \in Works : work[w] = "WAIT"} = {} /\ {w \in Works : work[w] = "RECV"} = Works
  BY <1>1
<1> QED
  BY <1>1, <1>2, FS_EmptySet, WorksAssumption DEF PingInit, PingInv, PingsUseUpWorks, WorksAssumption

\* A work that gets a ping waits for good.
LEMMA EndsSound == ASSUME PingInv, NEW w \in Works, OperationEnds(w) PROVE PingInv'
<1>1. /\ work \in [Works -> {"RECV", "WAIT"}] /\ answered = 0
      /\ pinged \in 0 .. MaxPings /\ waiting \in 0 .. pinged
      /\ Cardinality(Waits) = pinged - waiting
      /\ pending = {v \in Works : work[v] = "RECV"}
  BY DEF PingInv, PingsUseUpWorks, Waits
<1>2. work[w] = "RECV"
  BY <1>1 DEF OperationEnds
<1>3. ServerCb("RECV").state = "WAIT" /\ ServerCb("RECV").begins = {}
  BY DEF ServerCb
<1>4. /\ work' = [work EXCEPT ![w] = "WAIT"] /\ pending' = pending \ {w}
      /\ waiting' = waiting - 1 /\ waiting > 0 /\ UNCHANGED <<pinged, answered>>
  BY <1>2, <1>3 DEF OperationEnds
<1>5. Waits' = Waits \cup {w} /\ w \notin Waits
  BY <1>1, <1>2, <1>4 DEF Waits
<1>6. IsFiniteSet(Waits)
  BY WorksAssumption, FS_Subset DEF WorksAssumption, Waits
<1>7. Cardinality(Waits') = Cardinality(Waits) + 1
  BY <1>5, <1>6, FS_AddElement
<1>8. pending' = {v \in Works : work'[v] = "RECV"}
  BY <1>1, <1>2, <1>4
<1>9. work' \in [Works -> {"RECV", "WAIT"}] /\ waiting' \in 0 .. pinged
  BY <1>1, <1>4
<1>10. Cardinality(Waits)' = pinged' - waiting'
  BY <1>1, <1>4, <1>7
<1> QED
  BY <1>1, <1>4, <1>8, <1>9, <1>10 DEF PingInv, PingsUseUpWorks, Waits

\* Every step of the ping server and its clients keeps PingInv.
LEMMA PingStep == PingInv /\ [PingNext]_pingVars => PingInv'
<1> SUFFICES ASSUME PingInv, [PingNext]_pingVars PROVE PingInv'
  OBVIOUS
<1>1. CASE Ping
  <2>1. /\ pinged' = pinged + 1 /\ waiting' = waiting + 1 /\ UNCHANGED <<work, pending, answered>>
    BY <1>1 DEF Ping
  <2>2. /\ Cardinality(Waits) = pinged' - waiting'
        /\ pinged' \in 0 .. MaxPings /\ waiting' \in 0 .. pinged'
    BY <1>1, <2>1, WorksAssumption DEF Ping, PingInv, PingsUseUpWorks, Waits, WorksAssumption
  <2> QED
    BY <2>1, <2>2 DEF PingInv, PingsUseUpWorks, Waits
<1>2. CASE UNCHANGED pingVars
  BY <1>2 DEF PingInv, PingsUseUpWorks, pingVars
<1> QED
  BY <1>1, <1>2, EndsSound DEF PingNext

\* PingInv gives the types.
LEMMA PingTyped == PingInv => PingTypeOK
<1> SUFFICES ASSUME PingInv PROVE PingTypeOK
  OBVIOUS
<1>1. work \in [Works -> {"INIT", "RECV", "WAIT", "SEND"}] /\ pending \subseteq Works
  BY DEF PingInv, PingsUseUpWorks
<1>2. pinged \in 0 .. MaxPings /\ waiting \in 0 .. pinged /\ answered = 0
  BY DEF PingInv, PingsUseUpWorks
<1>3. {waiting, answered, waiting + answered} \subseteq 0 .. pinged
  BY <1>2
<1> QED
  BY <1>1, <1>2, <1>3 DEF PingTypeOK

\* However many works the server has and pings it gets: each ping it takes uses up
\* a work for good, and none is ever answered.
THEOREM NeverAnswered == PingSpec => []PingsUseUpWorks
<1>1. PingInv => PingsUseUpWorks
  BY DEF PingInv
<1> QED
  BY <1>1, PingInitial, PingStep, PTL DEF PingSpec

-----------------------------------------------------------------------------
(* Sequences of subjects.                                                  *)

\* The subjects of a list in some order.
LEMMA OrderFacts ==
    ASSUME NEW S \in SUBSET Uuids, NEW order \in SetToSeqs(S)
    PROVE  order \in Seq(Uuids) /\ Range(order) \subseteq S
<1>1. IsFiniteSet(S)
  BY LiveLinkAssumption, FS_Subset DEF LiveLinkAssumption
<1>2. Cardinality(S) \in Nat
  BY <1>1, FS_CardinalityType
<1>3. order \in [1 .. Cardinality(S) -> S]
  BY DEF SetToSeqs
<1> QED
  BY <1>2, <1>3, SeqDef DEF Range

\* What is left when the first is done.
LEMMA JobFacts ==
    ASSUME NEW s \in Seq(Uuids), s # <<>>
    PROVE  /\ Head(s) \in Uuids /\ Tail(s) \in Seq(Uuids)
           /\ Range(s) = {Head(s)} \cup Range(Tail(s))
           /\ Tail(s) = <<>> <=> Len(s) = 1
<1>1. /\ Len(s) \in Nat \ {0} /\ DOMAIN s = 1 .. Len(s) /\ Head(s) = s[1]
      /\ Head(s) \in Uuids /\ Tail(s) \in Seq(Uuids) /\ Len(Tail(s)) = Len(s) - 1
      /\ \A i \in 1 .. Len(Tail(s)) : Tail(s)[i] = s[i + 1]
  BY HeadTailProperties, LenProperties, EmptySeq
<1>2. DOMAIN Tail(s) = 1 .. (Len(s) - 1)
  BY <1>1, LenProperties
<1>3. ASSUME NEW x \in Range(s) PROVE x = Head(s) \/ x \in Range(Tail(s))
  <2>1. PICK i \in 1 .. Len(s) : s[i] = x
    BY <1>1, <1>3 DEF Range
  <2>2. CASE i = 1
    BY <1>1, <2>1, <2>2
  <2>3. CASE i # 1
    <3>1. i - 1 \in 1 .. Len(Tail(s)) /\ Tail(s)[i - 1] = x
      BY <1>1, <2>1, <2>3
    <3> QED
      BY <1>1, <1>2, <3>1 DEF Range
  <2> QED
    BY <2>2, <2>3
<1>4. Head(s) \in Range(s)
  BY <1>1 DEF Range
<1>5. ASSUME NEW x \in Range(Tail(s)) PROVE x \in Range(s)
  <2>1. PICK i \in 1 .. Len(Tail(s)) : Tail(s)[i] = x
    BY <1>1, <1>2, <1>5 DEF Range
  <2>2. i + 1 \in 1 .. Len(s) /\ s[i + 1] = x
    BY <1>1, <2>1
  <2> QED
    BY <1>1, <2>2 DEF Range
<1>6. Tail(s) = <<>> <=> Len(s) = 1
  <2>1. Tail(s) # <<>> => Len(Tail(s)) \in Nat \ {0}
    BY <1>1, EmptySeq
  <2>2. Tail(s) = <<>> => Len(Tail(s)) = 0
    BY EmptySeq
  <2> QED
    BY <1>1, <2>1, <2>2
<1> QED
  BY <1>1, <1>3, <1>4, <1>5, <1>6

-----------------------------------------------------------------------------
(* The invariant.                                                          *)

Stages == {"new", "free", "sweep", "remove", "forget", "stopping", "gone"}

Spots == {"idle", "find", "static", "add", "frame", "stamp"}

\* What is in hand, and when.
JobInv ==
    /\ game \in Stages /\ job \in [Handlers -> Seq(Uuids)] /\ at \in [Handlers -> Spots]
    /\ \A h \in Handlers : at[h] = "idle" <=> job[h] = <<>>
    /\ list \in SUBSET Uuids /\ client = (game \notin {"new", "gone"})
    /\ ~AllIdle => game \notin {"new", "gone"}
    /\ game \in {"new", "gone"} => server = "nothing"

\* The clock goes on, and each name was stamped no earlier than its subjects
\* were last good.
TimeInv ==
    /\ clock \in Nat /\ now \in 0 .. clock
    /\ \A n \in DOMAIN lastUpdate : lastUpdate[n] \in 0 .. clock
    /\ DOMAIN finiteAt \subseteq Uuids
    /\ \A u \in DOMAIN finiteAt :
          /\ finiteAt[u] \in 0 .. clock
          /\ u \notin InJobs /\ Name[u] \in DOMAIN lastUpdate =>
                finiteAt[u] <= lastUpdate[Name[u]]

\* A subject LiveLink knows will be looked at.
Tracked ==
    \A n \in registered :
        \/ n \in DOMAIN lastUpdate
        \/ n \in {Name[u] : u \in InJobs}
        \/ game = "remove" /\ n = leaving

Same == initialized = registered /\ registered = DOMAIN lastUpdate

\* No handler has changed a map since it began with a subject.
Before == \A h \in Handlers : at[h] \in {"idle", "find", "static"}

\* On one thread: what the three maps hold at each place of OnPackage and of
\* RemoveInactiveSubjects.
OneThreadInv ==
    /\ game = "new" => Same
    /\ server = "tcp" =>
         /\ ~AllIdle => game = "free"
         /\ \A g, h \in Handlers : at[g] # "idle" /\ at[h] # "idle" => g = h
         /\ game \in {"free", "sweep", "stopping"} /\ Before => Same
         /\ \A h \in Handlers :
              /\ at[h] = "static" => Subject(h) \notin initialized
              /\ at[h] = "add" =>
                   /\ registered = initialized \cup {Subject(h)}
                   /\ DOMAIN lastUpdate = initialized
              /\ at[h] \in {"frame", "stamp"} =>
                   /\ initialized = registered
                   /\ registered = DOMAIN lastUpdate \cup {Subject(h)}
         /\ game = "remove" =>
              /\ initialized = registered
              /\ DOMAIN lastUpdate = registered \ {leaving}
         /\ game = "forget" =>
              /\ registered = initialized \ {leaving}
              /\ DOMAIN lastUpdate = registered

LiveInv == JobInv /\ TimeInv /\ Tracked /\ OneThreadInv

\* When nothing of a handler is in hand, or the first of it is done, or a package
\* has begun: what is in hand.
LEMMA JobsChange ==
    ASSUME JobInv, NEW h \in Handlers, NEW s \in Seq(Uuids), job' = [job EXCEPT ![h] = s]
    PROVE  /\ InJobs' \subseteq InJobs \cup Range(s) /\ Range(s) \subseteq InJobs'
           /\ InJobs \subseteq InJobs' \cup Range(job[h]) /\ Range(job[h]) \subseteq InJobs
           /\ job' \in [Handlers -> Seq(Uuids)]
           /\ job'[h] = s /\ \A g \in Handlers \ {h} : job'[g] = job[g]
<1>1. /\ job \in [Handlers -> Seq(Uuids)] /\ job'[h] = s
      /\ \A g \in Handlers \ {h} : job'[g] = job[g]
  BY DEF JobInv
<1>2. ASSUME NEW u \in InJobs' PROVE u \in InJobs \cup Range(s)
  <2>1. PICK g \in Handlers : u \in Range(job'[g])
    BY <1>2 DEF InJobs
  <2>2. CASE g = h
    BY <1>1, <2>1, <2>2
  <2>3. CASE g # h
    <3>1. u \in Range(job[g])
      BY <1>1, <2>1, <2>3
    <3> QED
      BY <3>1 DEF InJobs
  <2> QED
    BY <2>2, <2>3
<1>3. ASSUME NEW u \in InJobs PROVE u \in InJobs' \cup Range(job[h])
  <2>1. PICK g \in Handlers : u \in Range(job[g])
    BY <1>3 DEF InJobs
  <2>2. CASE g = h
    BY <2>1, <2>2
  <2>3. CASE g # h
    <3>1. u \in Range(job'[g])
      BY <1>1, <2>1, <2>3
    <3> QED
      BY <3>1 DEF InJobs
  <2> QED
    BY <2>2, <2>3
<1>4. Range(job'[h]) \subseteq InJobs' /\ Range(job[h]) \subseteq InJobs
  BY DEF InJobs
<1> QED
  BY <1>1, <1>2, <1>3, <1>4

\* A step of one handler leaves the others where they are.
LEMMA SpotsChange ==
    ASSUME JobInv, NEW h \in Handlers, NEW to \in Spots, at' = [at EXCEPT ![h] = to]
    PROVE  /\ at' \in [Handlers -> Spots] /\ at'[h] = to
           /\ \A g \in Handlers \ {h} : at'[g] = at[g]
BY DEF JobInv

\* What is in hand stays so when the jobs do not change.
LEMMA JobsSame == UNCHANGED job => InJobs' = InJobs
BY DEF InJobs

\* LiveInv holds of a source nobody has sent to.
LEMMA LiveInitial == LiveInit => LiveInv
<1> SUFFICES ASSUME LiveInit PROVE LiveInv
  OBVIOUS
<1>1. DOMAIN lastUpdate = {} /\ DOMAIN finiteAt = {} /\ <<>> \in Seq(Uuids)
  BY DEF LiveInit
<1>2. job \in [Handlers -> Seq(Uuids)] /\ at \in [Handlers -> Spots] /\ AllIdle
  BY <1>1 DEF LiveInit, Spots, AllIdle
<1>3. JobInv
  BY <1>2 DEF LiveInit, JobInv, Stages
<1>4. TimeInv
  BY <1>1 DEF LiveInit, TimeInv
<1>5. Tracked /\ OneThreadInv
  BY <1>1 DEF LiveInit, Tracked, OneThreadInv, Before, Same
<1> QED
  BY <1>3, <1>4, <1>5 DEF LiveInv

-----------------------------------------------------------------------------
(* The steps.                                                              *)

\* ReceiveClient, which starts the server, keeps LiveInv.
LEMMA ReceiveSound == LiveInv /\ ReceiveClient => LiveInv'
<1> SUFFICES ASSUME LiveInv, ReceiveClient PROVE LiveInv'
  OBVIOUS
<1> USE DEF LiveInv, ReceiveClient, maps, sweep, package
<1>1. AllIdle /\ AllIdle' /\ InJobs' = InJobs /\ Same
  BY JobsSame DEF JobInv, AllIdle, OneThreadInv, Before
<1>2. JobInv'
  BY <1>1 DEF JobInv, Stages
<1>3. TimeInv' /\ Tracked'
  BY <1>1 DEF TimeInv, Tracked
<1>4. OneThreadInv'
  BY <1>1 DEF OneThreadInv, Before, Same, AllIdle
<1> QED
  BY <1>2, <1>3, <1>4

\* The passing of a second keeps LiveInv.
LEMMA TockSound == LiveInv /\ Tock => LiveInv'
<1> SUFFICES ASSUME LiveInv, Tock PROVE LiveInv'
  OBVIOUS
<1> USE DEF LiveInv, Tock, maps, sweep, package
<1>1. InJobs' = InJobs
  BY JobsSame
<1>2. JobInv' /\ Tracked' /\ OneThreadInv'
  BY <1>1 DEF JobInv, Tracked, OneThreadInv, Before, Same, Subject, AllIdle
<1>3. TimeInv'
  BY <1>1 DEF TimeInv
<1> QED
  BY <1>2, <1>3

\* The arrival of a packet with any subjects, some of them bad, keeps LiveInv,
\* whatever packets other handlers have in hand.
LEMMA PackageSound ==
    ASSUME LiveInv, NEW h \in Handlers, NEW news \in SUBSET Uuids, NEW bad \in SUBSET Uuids,
           OnPackage(h, news, bad)
    PROVE  LiveInv'
<1> USE DEF LiveInv
<1>1. list' \in SUBSET Uuids /\ list' \ bad \in SUBSET Uuids
  BY DEF OnPackage, JobInv
<1>2. PICK order \in SetToSeqs(list' \ bad) :
         /\ job' = [job EXCEPT ![h] = order]
         /\ at' = [at EXCEPT ![h] = IF order = <<>> THEN "idle" ELSE "find"]
  BY DEF OnPackage, Begin
<1>3. order \in Seq(Uuids) /\ Range(order) \subseteq Uuids
  BY <1>1, OrderFacts
<1>4. at[h] = "idle" /\ Range(job[h]) = {}
  BY DEF OnPackage, MayHandle, JobInv, Range
<1>5. /\ InJobs' \subseteq InJobs \cup Range(order) /\ Range(order) \subseteq InJobs'
      /\ InJobs \subseteq InJobs' /\ job' \in [Handlers -> Seq(Uuids)]
      /\ job'[h] = order /\ \A g \in Handlers \ {h} : job'[g] = job[g]
  BY <1>2, <1>3, <1>4, JobsChange
<1>6. /\ at' \in [Handlers -> Spots] /\ at'[h] = (IF order = <<>> THEN "idle" ELSE "find")
      /\ \A g \in Handlers \ {h} : at'[g] = at[g]
  BY <1>2, SpotsChange DEF Spots
<1>7. /\ finiteAt' = [u \in DOMAIN finiteAt \cup Range(order) |->
                        IF u \in Range(order) THEN clock ELSE finiteAt[u]]
      /\ UNCHANGED <<game, server, bIsValid, client, initialized, lastUpdate, registered, clock,
                     now, leaving>>
  BY <1>5 DEF OnPackage, maps, sweep
<1>8. game \notin {"new", "gone"} /\ (server = "tcp" => game = "free" /\ AllIdle)
  BY DEF OnPackage, MayHandle, Threaded, JobInv
<1>9. JobInv'
  BY <1>1, <1>5, <1>6, <1>7, <1>8 DEF JobInv
<1>10. TimeInv'
  BY <1>3, <1>5, <1>7 DEF TimeInv
<1>11. Tracked'
  BY <1>5, <1>7 DEF Tracked
<1>12. OneThreadInv'
  <2> SUFFICES ASSUME server = "tcp" PROVE OneThreadInv'
    BY <1>7, <1>8 DEF OneThreadInv, Before
  <2>1. game = "free" /\ \A g \in Handlers : at[g] = "idle"
    BY <1>8 DEF AllIdle
  <2>2. Same
    BY <2>1 DEF OneThreadInv, Before
  <2>3. \A g \in Handlers : at'[g] \in {"idle", "find"} /\ (at'[g] # "idle" => g = h)
    BY <1>6, <2>1
  <2> QED
    BY <1>7, <2>1, <2>2, <2>3 DEF OneThreadInv, Before, Same
<1> QED
  BY <1>9, <1>10, <1>11, <1>12

\* In the steps of OnPackage the subject in hand is the first of the job.
LEMMA InHand ==
    ASSUME LiveInv, NEW h \in Handlers, at[h] # "idle"
    PROVE  /\ job[h] # <<>> /\ Head(job[h]) \in Uuids /\ Head(job[h]) \in Range(job[h])
           /\ Subject(h) \in {Name[u] : u \in InJobs}
           /\ Tail(job[h]) \in Seq(Uuids)
           /\ Range(job[h]) = {Head(job[h])} \cup Range(Tail(job[h]))
           /\ Tail(job[h]) = <<>> <=> Len(job[h]) = 1
<1>1. job[h] # <<>> /\ job[h] \in Seq(Uuids)
  BY DEF LiveInv, JobInv
<1>2. Range(job[h]) \subseteq InJobs
  BY DEF InJobs
<1> QED
  BY <1>1, <1>2, JobFacts DEF Subject

\* A step within one subject: nothing but the handler's place and, of the maps,
\* what this step is there for changes.
LEMMA WithinFacts ==
    ASSUME LiveInv, NEW h \in Handlers, NEW from \in Spots \ {"idle"}, NEW to \in Spots \ {"idle"},
           Step(h, from, to), UNCHANGED job
    PROVE  /\ at[h] = from /\ at'[h] = to /\ \A g \in Handlers \ {h} : at'[g] = at[g]
           /\ JobInv' /\ InJobs' = InJobs /\ ~AllIdle /\ ~AllIdle'
           /\ \A g \in Handlers : Subject(g)' = Subject(g)
           /\ (server = "tcp" => game = "free" /\ \A g \in Handlers \ {h} : at[g] = "idle")
           /\ game' = game /\ server' = server
<1> USE DEF LiveInv
<1>1. at[h] = from /\ at' = [at EXCEPT ![h] = to]
      /\ UNCHANGED <<game, server, bIsValid, client, list, clock, now, leaving, finiteAt>>
  BY DEF Step, sweep
<1>2. /\ at' \in [Handlers -> Spots] /\ at'[h] = to
      /\ \A g \in Handlers \ {h} : at'[g] = at[g]
  BY <1>1, SpotsChange
<1>3. ~AllIdle /\ ~AllIdle'
  BY <1>1, <1>2 DEF AllIdle
<1>4. JobInv'
  BY <1>1, <1>2, <1>3 DEF JobInv
<1>5. server = "tcp" => game = "free" /\ \A g \in Handlers \ {h} : at[g] = "idle"
  BY <1>1, <1>3 DEF OneThreadInv, Before
<1> QED
  BY <1>1, <1>2, <1>3, <1>4, <1>5, JobsSame DEF Subject

\* The lookup of a subject in the source's map keeps LiveInv.
LEMMA FindSound == ASSUME LiveInv, NEW h \in Handlers, Find(h) PROVE LiveInv'
<1> DEFINE to == IF Subject(h) \in initialized THEN "frame" ELSE "static"
<1>1. Step(h, "find", to) /\ UNCHANGED <<initialized, lastUpdate, registered, job>>
  BY DEF Find, maps
<1>2. to \in Spots \ {"idle"} /\ "find" \in Spots \ {"idle"}
  BY DEF Spots
<1>3. /\ at[h] = "find" /\ at'[h] = to /\ \A g \in Handlers \ {h} : at'[g] = at[g]
      /\ JobInv' /\ InJobs' = InJobs /\ ~AllIdle /\ ~AllIdle'
      /\ \A g \in Handlers : Subject(g)' = Subject(g)
      /\ (server = "tcp" => game = "free" /\ \A g \in Handlers \ {h} : at[g] = "idle")
      /\ game' = game /\ server' = server
  BY <1>1, <1>2, WithinFacts
<1>4. TimeInv' /\ Tracked'
  BY <1>1, <1>3 DEF LiveInv, TimeInv, Tracked, Step, sweep
<1>5. OneThreadInv'
  <2> SUFFICES ASSUME server = "tcp" PROVE OneThreadInv'
    BY <1>1, <1>3 DEF LiveInv, OneThreadInv, Before, Same
  <2>1. Same
    BY <1>3 DEF LiveInv, OneThreadInv, Before
  <2>2. Subject(h) \in initialized <=> at'[h] = "frame"
    BY <1>3
  <2>3. at'[h] \in {"frame", "static"}
    BY <1>3
  <2> QED
    BY <1>1, <1>3, <2>1, <2>2, <2>3 DEF OneThreadInv, Before, Same
<1> QED
  BY <1>3, <1>4, <1>5 DEF LiveInv

\* Pushing a subject's static data keeps LiveInv.
LEMMA PushStaticSound == ASSUME LiveInv, NEW h \in Handlers, PushStatic(h) PROVE LiveInv'
<1>1. /\ Step(h, "static", "add") /\ registered' = registered \cup {Subject(h)}
      /\ UNCHANGED <<initialized, lastUpdate, job>>
  BY DEF PushStatic, maps
<1>2. "static" \in Spots \ {"idle"} /\ "add" \in Spots \ {"idle"}
  BY DEF Spots
<1>3. /\ at[h] = "static" /\ at'[h] = "add" /\ \A g \in Handlers \ {h} : at'[g] = at[g]
      /\ JobInv' /\ InJobs' = InJobs /\ ~AllIdle /\ ~AllIdle'
      /\ \A g \in Handlers : Subject(g)' = Subject(g)
      /\ (server = "tcp" => game = "free" /\ \A g \in Handlers \ {h} : at[g] = "idle")
      /\ game' = game /\ server' = server
  BY <1>1, <1>2, WithinFacts
<1>4. Subject(h) \in {Name[u] : u \in InJobs}
  BY <1>3, InHand
<1>5. /\ UNCHANGED <<clock, now, leaving, lastUpdate, finiteAt>>
      /\ registered' = registered \cup {Subject(h)}
  BY <1>1 DEF Step, sweep
<1>6. TimeInv'
  BY <1>3, <1>5 DEF LiveInv, TimeInv
<1>7. Tracked'
  BY <1>3, <1>4, <1>5 DEF LiveInv, Tracked
<1>8. OneThreadInv'
  <2> SUFFICES ASSUME server = "tcp" PROVE OneThreadInv'
    BY <1>1, <1>3 DEF LiveInv, OneThreadInv, Before, JobInv
  <2>1. Same
    BY <1>3 DEF LiveInv, OneThreadInv, Before
  <2>2. /\ registered' = initialized' \cup {Subject(h)'} /\ DOMAIN lastUpdate' = initialized'
    BY <1>1, <1>3, <2>1 DEF Same
  <2>3. \A g \in Handlers : at'[g] = "idle" \/ (g = h /\ at'[g] = "add")
    BY <1>3
  <2>4. \A g, k \in Handlers : at'[g] # "idle" /\ at'[k] # "idle" => g = k
    BY <2>3
  <2>5. game' = "free" /\ at'[h] = "add"
    BY <1>3
  <2> QED
    BY <2>2, <2>3, <2>4, <2>5 DEF OneThreadInv, Before
<1> QED
  BY <1>3, <1>6, <1>7, <1>8 DEF LiveInv

\* Adding the subject to the map keeps LiveInv.
LEMMA AddSound == ASSUME LiveInv, NEW h \in Handlers, Add(h) PROVE LiveInv'
<1>1. /\ Step(h, "add", "frame") /\ initialized' = initialized \cup {Subject(h)}
      /\ UNCHANGED <<lastUpdate, registered, job>>
  BY DEF Add
<1>2. "frame" \in Spots \ {"idle"} /\ "add" \in Spots \ {"idle"}
  BY DEF Spots
<1>3. /\ at[h] = "add" /\ at'[h] = "frame" /\ \A g \in Handlers \ {h} : at'[g] = at[g]
      /\ JobInv' /\ InJobs' = InJobs /\ ~AllIdle /\ ~AllIdle'
      /\ \A g \in Handlers : Subject(g)' = Subject(g)
      /\ (server = "tcp" => game = "free" /\ \A g \in Handlers \ {h} : at[g] = "idle")
      /\ game' = game /\ server' = server
  BY <1>1, <1>2, WithinFacts
<1>a. UNCHANGED <<clock, now, leaving, lastUpdate, finiteAt, registered>>
  BY <1>1 DEF Step, sweep
<1>4. TimeInv' /\ Tracked'
  BY <1>3, <1>a DEF LiveInv, TimeInv, Tracked
<1>5. OneThreadInv'
  <2> SUFFICES ASSUME server = "tcp" PROVE OneThreadInv'
    BY <1>1, <1>3 DEF LiveInv, OneThreadInv, Before, JobInv
  <2>1. registered = initialized \cup {Subject(h)} /\ DOMAIN lastUpdate = initialized
    BY <1>3 DEF LiveInv, OneThreadInv, Before
  <2>2. initialized' = registered' /\ registered' = DOMAIN lastUpdate' \cup {Subject(h)'}
    BY <1>1, <1>3, <1>a, <2>1
  <2>3. \A g \in Handlers : at'[g] = "idle" \/ (g = h /\ at'[g] = "frame")
    BY <1>3
  <2>4. \A g, k \in Handlers : at'[g] # "idle" /\ at'[k] # "idle" => g = k
    BY <2>3
  <2>5. game' = "free" /\ at'[h] = "frame"
    BY <1>3
  <2> QED
    BY <2>2, <2>3, <2>4, <2>5 DEF OneThreadInv, Before
<1> QED
  BY <1>3, <1>4, <1>5 DEF LiveInv

\* Pushing a subject's frame keeps LiveInv.
LEMMA PushFrameSound == ASSUME LiveInv, NEW h \in Handlers, PushFrame(h) PROVE LiveInv'
<1>1. Step(h, "frame", "stamp") /\ UNCHANGED <<initialized, lastUpdate, registered, job>>
  BY DEF PushFrame, maps
<1>2. "frame" \in Spots \ {"idle"} /\ "stamp" \in Spots \ {"idle"}
  BY DEF Spots
<1>3. /\ at[h] = "frame" /\ at'[h] = "stamp" /\ \A g \in Handlers \ {h} : at'[g] = at[g]
      /\ JobInv' /\ InJobs' = InJobs /\ ~AllIdle /\ ~AllIdle'
      /\ \A g \in Handlers : Subject(g)' = Subject(g)
      /\ (server = "tcp" => game = "free" /\ \A g \in Handlers \ {h} : at[g] = "idle")
      /\ game' = game /\ server' = server
  BY <1>1, <1>2, WithinFacts
<1>4. TimeInv' /\ Tracked'
  BY <1>1, <1>3 DEF LiveInv, TimeInv, Tracked, Step, sweep
<1>5. OneThreadInv'
  BY <1>1, <1>3 DEF LiveInv, OneThreadInv, Before, JobInv, Same
<1> QED
  BY <1>3, <1>4, <1>5 DEF LiveInv

\* Stamping the subject's time of last update keeps LiveInv.
LEMMA StampSound == ASSUME LiveInv, NEW h \in Handlers, Stamp(h) PROVE LiveInv'
<1> DEFINE to == IF Len(job[h]) = 1 THEN "idle" ELSE "find"
<1>0. /\ at[h] = "stamp" /\ at' = [at EXCEPT ![h] = to] /\ job' = [job EXCEPT ![h] = Tail(job[h])]
      /\ lastUpdate' = Stamped(Subject(h))
      /\ UNCHANGED <<game, server, bIsValid, client, list, clock, now, leaving, finiteAt,
                     initialized, registered>>
  BY DEF Stamp, Step, sweep
<1>1. /\ job[h] # <<>> /\ Head(job[h]) \in Uuids /\ Tail(job[h]) \in Seq(Uuids)
      /\ Range(job[h]) = {Head(job[h])} \cup Range(Tail(job[h]))
      /\ Tail(job[h]) = <<>> <=> Len(job[h]) = 1
      /\ Subject(h) = Name[Head(job[h])]
  BY <1>0, InHand DEF Subject
<1>2. /\ DOMAIN lastUpdate' = DOMAIN lastUpdate \cup {Subject(h)}
      /\ lastUpdate'[Subject(h)] = clock
      /\ \A n \in DOMAIN lastUpdate :
            lastUpdate'[n] = IF n = Subject(h) THEN clock ELSE lastUpdate[n]
  BY <1>0 DEF Stamped
<1>3. /\ InJobs \subseteq InJobs' \cup {Head(job[h])} /\ InJobs' \subseteq InJobs
      /\ job' \in [Handlers -> Seq(Uuids)]
      /\ job'[h] = Tail(job[h]) /\ \A g \in Handlers \ {h} : job'[g] = job[g]
  BY <1>0, <1>1, JobsChange DEF LiveInv
<1>4. to \in Spots
  BY DEF Spots
<1>5. /\ at' \in [Handlers -> Spots] /\ at'[h] = to
      /\ \A g \in Handlers \ {h} : at'[g] = at[g]
  BY <1>0, <1>4, SpotsChange DEF LiveInv
<1>6. ~AllIdle
  BY <1>0 DEF AllIdle
<1>7. JobInv'
  BY <1>0, <1>1, <1>3, <1>5, <1>6 DEF LiveInv, JobInv
<1>8. TimeInv'
  <2>1. clock \in Nat /\ now \in 0 .. clock
    BY DEF LiveInv, TimeInv
  <2>2. \A n \in DOMAIN lastUpdate' : lastUpdate'[n] \in 0 .. clock
    BY <1>2, <2>1 DEF LiveInv, TimeInv
  <2>3. ASSUME NEW u \in DOMAIN finiteAt, u \notin InJobs', Name[u] \in DOMAIN lastUpdate'
        PROVE  finiteAt[u] <= lastUpdate'[Name[u]]
    <3>1. finiteAt[u] \in 0 .. clock
      BY DEF LiveInv, TimeInv
    <3>2. CASE Name[u] = Subject(h)
      BY <1>2, <2>1, <3>1, <3>2
    <3>3. CASE Name[u] # Subject(h)
      <4>1. u \notin InJobs /\ Name[u] \in DOMAIN lastUpdate
        BY <1>1, <1>2, <1>3, <2>3, <3>3
      <4> QED
        BY <1>2, <3>3, <4>1 DEF LiveInv, TimeInv
    <3> QED
      BY <3>2, <3>3
  <2> QED
    BY <1>0, <2>1, <2>2, <2>3 DEF LiveInv, TimeInv
<1>9. Tracked'
  BY <1>0, <1>1, <1>2, <1>3 DEF LiveInv, Tracked
<1>10. OneThreadInv'
  <2> SUFFICES ASSUME server = "tcp" PROVE OneThreadInv'
    BY <1>0, <1>6 DEF LiveInv, OneThreadInv, Before, JobInv
  <2>1. /\ game = "free" /\ \A g \in Handlers \ {h} : at[g] = "idle"
        /\ initialized = registered /\ registered = DOMAIN lastUpdate \cup {Subject(h)}
    BY <1>0, <1>6 DEF LiveInv, OneThreadInv, Before
  <2>2. Same'
    BY <1>0, <1>2, <2>1 DEF Same
  <2>3. \A g \in Handlers : at'[g] \in {"idle", "find"} /\ (at'[g] # "idle" => g = h)
    BY <1>5, <2>1
  <2> QED
    BY <1>0, <2>1, <2>2, <2>3 DEF OneThreadInv, Before
<1> QED
  BY <1>7, <1>8, <1>9, <1>10 DEF LiveInv

\* Beginning the sweep of inactive subjects keeps LiveInv.
LEMMA BeginSweepSound == LiveInv /\ RemoveInactiveSubjects => LiveInv'
<1> SUFFICES ASSUME LiveInv, RemoveInactiveSubjects PROVE LiveInv'
  OBVIOUS
<1> USE DEF LiveInv, RemoveInactiveSubjects, MayTick, maps, package
<1>1. InJobs' = InJobs /\ AllIdle' = AllIdle
  BY JobsSame DEF AllIdle
<1>2. JobInv'
  BY <1>1 DEF JobInv, Stages
<1>3. TimeInv' /\ Tracked'
  BY <1>1 DEF TimeInv, Tracked
<1>4. OneThreadInv'
  BY <1>1 DEF OneThreadInv, Before, JobInv, Threaded, Same, Subject
<1> QED
  BY <1>2, <1>3, <1>4

\* Taking an inactive subject out of the map keeps LiveInv.
LEMMA TakeOutSound == LiveInv /\ TakeOut => LiveInv'
<1> SUFFICES ASSUME LiveInv, TakeOut PROVE LiveInv'
  OBVIOUS
<1>1. /\ leaving' \in DOMAIN lastUpdate
      /\ DOMAIN lastUpdate' = DOMAIN lastUpdate \ {leaving'}
      /\ \A n \in DOMAIN lastUpdate' : lastUpdate'[n] = lastUpdate[n]
  BY DEF TakeOut, Inactive, Restrict
<1> USE DEF LiveInv, TakeOut, package
<1>2. InJobs' = InJobs /\ AllIdle' = AllIdle
  BY JobsSame DEF AllIdle
<1>3. JobInv'
  BY <1>2 DEF JobInv, Stages
<1>4. TimeInv' /\ Tracked'
  <2>1. TimeInv'
    BY <1>1, <1>2 DEF TimeInv
  <2>2. registered' = registered /\ game' = "remove" /\ game # "remove"
    OBVIOUS
  <2>3. Tracked'
    BY <1>1, <1>2, <2>2 DEF Tracked
  <2> QED
    BY <2>1, <2>3
<1>5. OneThreadInv'
  <2> SUFFICES ASSUME server = "tcp" PROVE OneThreadInv'
    BY DEF OneThreadInv, Before
  <2>1. game = "sweep" /\ game' = "remove" /\ UNCHANGED <<server, at, initialized, registered>>
    OBVIOUS
  <2>2. \A g \in Handlers : at[g] = "idle"
    <3>1. OneThreadInv /\ game # "free"
      BY <2>1
    <3>2. AllIdle
      BY <3>1 DEF OneThreadInv, Before
    <3> QED
      BY <3>2 DEF AllIdle
  <2>3. Same
    BY <2>1, <2>2 DEF OneThreadInv, Before
  <2>4. initialized' = registered' /\ DOMAIN lastUpdate' = registered' \ {leaving'}
    BY <1>1, <2>1, <2>3 DEF Same
  <2>5. \A g \in Handlers : at'[g] = "idle"
    BY <2>1, <2>2
  <2> HIDE DEF LiveInv, TakeOut, package
  <2>6. game' = "remove" /\ AllIdle'
    BY <2>1, <2>5 DEF AllIdle
  <2> QED
    BY <2>4, <2>5, <2>6 DEF OneThreadInv, Before
<1> QED
  BY <1>3, <1>4, <1>5

\* Removing the subject from LiveLink keeps LiveInv.
LEMMA RemoveSound == LiveInv /\ RemoveSubject => LiveInv'
<1> SUFFICES ASSUME LiveInv, RemoveSubject PROVE LiveInv'
  OBVIOUS
<1> USE DEF LiveInv, RemoveSubject, maps, sweep, package
<1>1. InJobs' = InJobs /\ AllIdle' = AllIdle
  BY JobsSame DEF AllIdle
<1>2. JobInv' /\ TimeInv' /\ Tracked'
  BY <1>1 DEF JobInv, Stages, TimeInv, Tracked
<1>3. OneThreadInv'
  BY <1>1 DEF OneThreadInv, Before, Same, Subject, AllIdle
<1> QED
  BY <1>2, <1>3

\* Forgetting the subject's time keeps LiveInv.
LEMMA ForgetSound == LiveInv /\ Forget => LiveInv'
<1> SUFFICES ASSUME LiveInv, Forget PROVE LiveInv'
  OBVIOUS
<1> USE DEF LiveInv, Forget, package
<1>1. InJobs' = InJobs /\ AllIdle' = AllIdle
  BY JobsSame DEF AllIdle
<1>2. JobInv' /\ TimeInv' /\ Tracked'
  BY <1>1 DEF JobInv, Stages, TimeInv, Tracked
<1>3. OneThreadInv'
  BY <1>1 DEF OneThreadInv, Before, Same, Subject, AllIdle
<1> QED
  BY <1>2, <1>3

\* The end of the sweep keeps LiveInv.
LEMMA SweepEndsSound == LiveInv /\ SweepEnds => LiveInv'
<1> SUFFICES ASSUME LiveInv, SweepEnds PROVE LiveInv'
  OBVIOUS
<1> USE DEF LiveInv, SweepEnds, maps, package
<1>1. InJobs' = InJobs /\ AllIdle' = AllIdle
  BY JobsSame DEF AllIdle
<1>2. JobInv' /\ TimeInv' /\ Tracked'
  BY <1>1 DEF JobInv, Stages, TimeInv, Tracked
<1>3. OneThreadInv'
  BY <1>1 DEF OneThreadInv, Before, Same, Subject, AllIdle
<1> QED
  BY <1>2, <1>3

\* The request to shut down keeps LiveInv.
LEMMA ShutdownSound == LiveInv /\ Shutdown => LiveInv'
<1> SUFFICES ASSUME LiveInv, Shutdown PROVE LiveInv'
  OBVIOUS
<1> USE DEF LiveInv, Shutdown, MayTick, maps, sweep, package
<1>1. InJobs' = InJobs /\ AllIdle' = AllIdle
  BY JobsSame DEF AllIdle
<1>2. JobInv' /\ TimeInv' /\ Tracked'
  BY <1>1 DEF JobInv, Stages, TimeInv, Tracked
<1>3. OneThreadInv'
  BY <1>1 DEF OneThreadInv, Before, Threaded, Same, Subject
<1> QED
  BY <1>2, <1>3

\* The source's stop keeps LiveInv.
LEMMA StoppedSound == LiveInv /\ Stopped => LiveInv'
<1> SUFFICES ASSUME LiveInv, Stopped PROVE LiveInv'
  OBVIOUS
<1> USE DEF LiveInv, Stopped, maps, sweep, package
<1>1. InJobs' = InJobs /\ AllIdle' = AllIdle
  BY JobsSame DEF AllIdle
<1>2. JobInv' /\ TimeInv' /\ Tracked'
  BY <1>1 DEF JobInv, Stages, TimeInv, Tracked
<1>3. OneThreadInv'
  BY <1>1 DEF OneThreadInv, Before
<1> QED
  BY <1>2, <1>3

\* A step that leaves the source alone keeps LiveInv.
LEMMA LiveStutter == LiveInv /\ UNCHANGED liveVars => LiveInv'
<1> SUFFICES ASSUME LiveInv, UNCHANGED liveVars PROVE LiveInv'
  OBVIOUS
<1> USE DEF LiveInv, liveVars, maps, sweep, package
<1>1. InJobs' = InJobs /\ AllIdle' = AllIdle
  BY JobsSame DEF AllIdle
<1>2. JobInv' /\ TimeInv' /\ Tracked'
  BY <1>1 DEF JobInv, TimeInv, Tracked
<1>3. OneThreadInv'
  BY <1>1 DEF OneThreadInv, Before, Same, Subject
<1> QED
  BY <1>2, <1>3

\* Every step of the Unreal source keeps LiveInv.
LEMMA LiveStep == LiveInv /\ [LiveNext]_liveVars => LiveInv'
<1> SUFFICES ASSUME LiveInv, [LiveNext]_liveVars PROVE LiveInv'
  OBVIOUS
<1>1. ASSUME NEW h \in Handlers, Handling(h) PROVE LiveInv'
  BY <1>1, FindSound, PushStaticSound, AddSound, PushFrameSound, StampSound DEF Handling
<1> QED
  BY <1>1, ReceiveSound, TockSound, PackageSound, BeginSweepSound, TakeOutSound, RemoveSound,
     ForgetSound, SweepEndsSound, ShutdownSound, StoppedSound, LiveStutter
     DEF LiveNext, Sweeping

\* LiveInv is an invariant of the Unreal source.
LEMMA LiveInvariant == LiveSpec => []LiveInv
BY LiveInitial, LiveStep, PTL DEF LiveSpec

-----------------------------------------------------------------------------
(* The properties.                                                         *)

\* However packages of any number of handlers and ticks interleave, and whenever the
\* source is shut down, whoever uses Client finds it.
THEOREM ClientIsThere == LiveSpec => []ClientThere
<1>1. LiveInv => ClientThere
  BY DEF LiveInv, JobInv, ClientThere, Stages
<1> QED
  BY <1>1, LiveInvariant, PTL

\* On one thread the source's maps and LiveLink agree between calls; on several they
\* may not, but LiveLink is left with no subject that will not be looked at.
THEOREM NoSubjectForgotten == LiveSpec => []MapsAgree
<1>1. LiveInv => MapsAgree
  <2> SUFFICES ASSUME LiveInv PROVE MapsAgree
    OBVIOUS
  <2>1. ASSUME OnOneThread PROVE initialized = registered /\ registered = DOMAIN lastUpdate
    <3>1. server = "tcp" /\ game \in {"free", "stopping"} /\ \A h \in Handlers : at[h] = "idle"
      BY <2>1 DEF OnOneThread, AllIdle
    <3>2. OneThreadInv
      BY DEF LiveInv
    <3>3. Same
      BY <3>1, <3>2 DEF OneThreadInv, Before
    <3> QED
      BY <3>3 DEF Same
  <2> QED
    BY <2>1 DEF LiveInv, Tracked, MapsAgree
<1> QED
  BY <1>1, LiveInvariant, PTL

\* A subject is removed from LiveLink's watch only after no packet has brought it,
\* or any other, for longer than the threshold.
THEOREM OnlyTheSilentLeave == LiveSpec => RemovedOnlyInSilence
<1> DEFINE Silent ==
        \A n \in DOMAIN lastUpdate \ DOMAIN lastUpdate' :
            \A u \in DOMAIN finiteAt :
                Name[u] = n /\ u \notin InJobs => clock > finiteAt[u] + Threshold
<1>1. LiveInv /\ [LiveNext]_liveVars => [Silent]_liveVars
  <2> SUFFICES ASSUME LiveInv, LiveNext PROVE Silent
    OBVIOUS
  <2>1. CASE TakeOut
    <3>1. PICK n : /\ n \in DOMAIN lastUpdate /\ now > lastUpdate[n] + Threshold
                   /\ DOMAIN lastUpdate' = DOMAIN lastUpdate \ {n}
      BY <2>1 DEF TakeOut, Inactive, Restrict
    <3>2. Threshold \in Nat
      BY LiveLinkAssumption DEF LiveLinkAssumption
    <3>3. ASSUME NEW u \in DOMAIN finiteAt, Name[u] = n, u \notin InJobs
          PROVE  clock > finiteAt[u] + Threshold
      <4>1. /\ finiteAt[u] \in 0 .. clock /\ finiteAt[u] <= lastUpdate[n]
            /\ lastUpdate[n] \in 0 .. clock /\ now \in 0 .. clock /\ clock \in Nat
        BY <3>1, <3>3 DEF LiveInv, TimeInv
      <4> QED
        BY <3>1, <3>2, <4>1
    <3> QED
      BY <3>1, <3>3
  <2>2. ASSUME NEW h \in Handlers, Stamp(h) PROVE Silent
    BY <2>2 DEF Stamp, Stamped
  <2>3. CASE UNCHANGED lastUpdate
    BY <2>3
  <2> HIDE DEF Silent
  <2> QED
    BY <2>1, <2>2, <2>3 DEF LiveNext, ReceiveClient, Tock, OnPackage, Handling, Find, PushStatic,
       Add, PushFrame, RemoveInactiveSubjects, Sweeping, RemoveSubject, Forget, SweepEnds,
       Shutdown, Stopped, maps
<1> QED
  BY <1>1, LiveInvariant, PTL DEF LiveSpec, RemovedOnlyInSilence

-----------------------------------------------------------------------------
(* The types.                                                              *)

Short(s) == Len(s) <= 9

\* The pair connectors' table of five entries is short.
LEMMA ShortFive ==
    ASSUME NEW call \in {"dial", "listen"}
    PROVE  Short(<<"open", "aio", call, "recv", "STARTED">>)
BY DEF Short

\* A table of two calls is short.
LEMMA ShortTwo == ASSUME NEW call \in {"dial", "listen"} PROVE Short(<<"open", call>>)
BY DEF Short

\* The tables of the other kinds are short.
LEMMA ShortOthers ==
    /\ Short(AsyncPushSteps.AsyncPipelinePush) /\ Short(AsyncPullSteps.AsyncPipelinePull)
    /\ Short(AsyncSubscriberSteps.AsyncSubscriber)
    /\ Short(<<"open", "listen", "STARTED">>) /\ Short(<<"open", "dial", "subscribe">>)
BY DEF Short, AsyncPushSteps, AsyncPullSteps, AsyncSubscriberSteps

\* No kind's start has more than nine entries.
LEMMA ShortSteps == \A k \in Kinds : Len(Steps[k]) <= 9
<1>1. \A t \in AsyncTables : \A k \in DOMAIN t : Short(t[k])
  BY ShortFive, ShortOthers
     DEF AsyncTables, AsyncPairSteps, AsyncPushSteps, AsyncPullSteps, AsyncPublisherSteps,
         AsyncSubscriberSteps, AsyncRequestSteps
<1>2. \A t \in BlockingTables : \A k \in DOMAIN t : Short(t[k])
  BY ShortTwo, ShortOthers
     DEF BlockingTables, PairSteps, PipelineSteps, PublisherSteps, SubscriberSteps, RequestSteps
<1>3. ASSUME NEW k \in Kinds PROVE Short(Steps[k])
  <2> DEFINE t == CHOOSE t \in AsyncTables \cup BlockingTables : k \in DOMAIN t
  <2>1. \E u \in AsyncTables \cup BlockingTables : k \in DOMAIN u
    <3>1. k \in UNION {DOMAIN u : u \in AsyncTables} \/ k \in UNION {DOMAIN u : u \in BlockingTables}
      BY <1>3 DEF Kinds, Blocking
    <3> QED
      BY <3>1
  <2>2. t \in AsyncTables \cup BlockingTables /\ k \in DOMAIN t
    BY <2>1
  <2>3. Steps[k] = t[k]
    BY <1>3 DEF Steps
  <2> HIDE DEF t
  <2> QED
    BY <2>2, <2>3, <1>1, <1>2
<1> QED
  BY <1>3 DEF Short

\* Messages are numbered up to MaxMsgs, sockets and aios up to MaxStarts.
CallTypes ==
    /\ kind \in Kinds \cup {"none"}
    /\ starts \in 0 .. MaxStarts /\ pc \in 1 .. 10
    /\ mState \in {"NOTSTARTED", "STARTED", "READING", "STATE_ERROR"}
    /\ mSocket \in 0 .. MaxStarts /\ aio \in 0 .. MaxStarts /\ dropped \in 0 .. MaxStarts
    /\ sockets \subseteq 1 .. MaxStarts /\ aios \subseteq 1 .. MaxStarts

PeerTypes ==
    /\ pipe \in BOOLEAN /\ connected \in BOOLEAN /\ armed \in BOOLEAN
    /\ arrived \in 0 .. MaxMsgs

QueueTypes ==
    /\ slot \in 0 .. MaxMsgs /\ inbox \in Seq(1 .. MaxMsgs) /\ handed \in Seq(1 .. MaxMsgs)

ReaderTypes ==
    /\ len \in Nat /\ cap \in Nat /\ held \in 0 .. MaxMsgs
    /\ relayed \in Seq(1 .. MaxMsgs)

\* A callback at p with message m.
Callable(p, m) ==
    /\ p \in {"called", "rearm", "hand", "receive"} /\ m \in 0 .. MaxMsgs
    /\ p = "hand" => m # 0

CallbackTypes == \A c \in callbacks : Callable(c.at, c.msg) /\ (c.at = "rearm" => c.msg # 0)

MessageTypes == PeerTypes /\ QueueTypes /\ ReaderTypes /\ CallbackTypes

\* Every step keeps the types of the calls' state.
LEMMA CallTyped == NngInv /\ CallTypes /\ [Next]_vars => CallTypes'
<1> SUFFICES ASSUME NngInv, CallTypes, [Next]_vars PROVE CallTypes'
  OBVIOUS
<1>b. MaxStarts \in Nat
  BY ConnectorAssumption
<1>1. ASSUME NEW k \in Kinds, New(k) PROVE CallTypes'
  BY <1>1 DEF CallTypes, New
<1>2. CASE CallStart
  BY <1>2, <1>b DEF CallTypes, CallStart
<1>3. CASE CallSucceeds
  <2>1. pc' \in 1 .. 10 /\ UNCHANGED <<kind, starts, dropped>>
    <3>1. pc \in 1 .. Len(Steps[kind]) /\ Len(Steps[kind]) \in Nat /\ kind \in Kinds
      BY <1>3, CallFacts DEF NngInv, CallSucceeds
    <3>2. Len(Steps[kind]) <= 9
      BY <3>1, ShortSteps
    <3>3. pc' = pc + 1 /\ UNCHANGED <<kind, starts, dropped>>
      BY <1>3 DEF CallSucceeds
    <3>4. pc + 1 \in 1 .. 10
      BY <3>1, <3>2
    <3> QED
      BY <3>3, <3>4
  <2>2. starts \in 1 .. MaxStarts
    BY <1>3, <1>b DEF CallSucceeds, NngInv, OwnerInv, CallTypes
  <2>3. CASE Open
    BY <2>1, <2>2, <2>3 DEF CallTypes, Open
  <2>4. CASE AllocAio
    BY <2>1, <2>2, <2>4 DEF CallTypes, AllocAio
  <2>5. CASE Receive
    BY <2>1, <2>5 DEF CallTypes, Receive
  <2>6. CASE SetStarted
    BY <2>1, <2>6 DEF CallTypes, SetStarted
  <2>7. CASE UNCHANGED <<mState, mSocket, sockets, aio, aios>>
    BY <2>1, <2>7 DEF CallTypes
  <2> QED
    BY <1>3, <2>3, <2>4, <2>5, <2>6, <2>7 DEF CallSucceeds
<1>4. CASE CallFails
  <2>1. /\ mSocket' \in {0, mSocket} /\ aio' \in {0, aio}
        /\ sockets' \subseteq sockets /\ aios' \subseteq aios
    BY <1>4 DEF CallFails, Release
  <2>2. UNCHANGED <<kind, starts, pc, dropped>> /\ mState' \in {mState, "STATE_ERROR"}
    BY <1>4 DEF CallFails
  <2> QED
    BY <2>1, <2>2, <1>b DEF CallTypes
<1>5. CASE Connect \/ Disconnect \/ Arrive \/ Received \/ ReceiveFails
           \/ ReadMessage \/ Relay \/ ShowMessage \/ UNCHANGED vars
  BY <1>5 DEF CallTypes, Connect, Disconnect, Arrive, Received, ReceiveFails, ReceiveEnds,
     ReadMessage, Relay, ShowMessage, vars, owner
<1>6. ASSUME NEW c \in callbacks, AsyncReadMsg(c) \/ Callback(c) PROVE CallTypes'
  BY <1>6 DEF CallTypes, AsyncReadMsg, TakeResult, Rearm, Hand, Callback, LookAtResult,
     ReceiveAnother, HandAndRearm, SetError, OwnerBut, owner
<1>7. CASE CallStop \/ Stop \/ Delete \/ DeleteBlocking
  <2>1. /\ mSocket' \in {0, mSocket} /\ aio' \in {0, aio} /\ dropped' \in {aio, dropped}
        /\ sockets' \subseteq sockets /\ aios' \subseteq aios
    BY <1>7 DEF CallStop, Stop, StopAio, AioStopped, Delete, DeleteBlocking
  <2>2. UNCHANGED <<kind, starts, pc, mState>>
    BY <1>7 DEF CallStop, Stop, StopAio, AioStopped, Delete, DeleteBlocking
  <2> QED
    BY <2>1, <2>2, <1>b DEF CallTypes
<1> QED
  BY <1>1, <1>2, <1>3, <1>4, <1>5, <1>6, <1>7 DEF Next

\* A queue of messages that is not empty has a message first and messages behind it.
LEMMA HeadTyped ==
    ASSUME NEW s \in Seq(1 .. MaxMsgs), s # <<>>
    PROVE  Head(s) \in 1 .. MaxMsgs /\ Tail(s) \in Seq(1 .. MaxMsgs)
BY HeadTailProperties

\* One callback more or less, with a message where it is to be armed again, keeps their types.
LEMMA CalledBack ==
    ASSUME CallbackTypes, NEW S \in SUBSET callbacks, NEW p, NEW m,
           Callable(p, m), p = "rearm" => m # 0,
           callbacks' \subseteq S \cup {[at |-> p, msg |-> m]}
    PROVE  CallbackTypes'
<1> DEFINE c == [at |-> p, msg |-> m]
<1>1. c.at = p /\ c.msg = m
  OBVIOUS
<1>2. \A d \in callbacks' : d \in callbacks \/ d = c
  OBVIOUS
<1> HIDE DEF c
<1> QED
  BY <1>1, <1>2 DEF CallbackTypes, Callable

\* Every step keeps the types of messages and callbacks.
LEMMA MessageTyped == NngInv /\ HeardInv /\ MessageTypes /\ [Next]_vars => MessageTypes'
<1> SUFFICES ASSUME NngInv, HeardInv, MessageTypes, [Next]_vars PROVE MessageTypes'
  OBVIOUS
<1>b. MaxMsgs \in Nat /\ Size \in [1 .. MaxMsgs -> Nat]
  BY ConnectorAssumption
<1>e. <<>> \in Seq(1 .. MaxMsgs)
  BY EmptySeq
<1>0. PeerTypes /\ QueueTypes /\ ReaderTypes /\ CallbackTypes
  BY DEF MessageTypes
<1>1. UNCHANGED reader => ReaderTypes'
  BY <1>0 DEF ReaderTypes, reader
<1>2. UNCHANGED callbacks => CallbackTypes'
  BY <1>0 DEF CallbackTypes, Callable
<1>3. UNCHANGED <<pipe, connected, arrived>> /\ armed' \in BOOLEAN => PeerTypes'
  BY <1>0 DEF PeerTypes
<1>4. UNCHANGED <<slot, inbox, handed>> => QueueTypes'
  BY <1>0 DEF QueueTypes
<1>5. CASE UNCHANGED <<peer, net, reader>>
  <2>1. /\ UNCHANGED reader /\ UNCHANGED callbacks /\ UNCHANGED <<pipe, connected, arrived>>
        /\ armed' = armed /\ UNCHANGED <<slot, inbox, handed>>
    BY <1>5 DEF peer, net
  <2> QED
    BY <2>1, <1>0, <1>1, <1>2, <1>3, <1>4 DEF MessageTypes, PeerTypes
<1>6. CASE CallSucceeds
  <2>1. CASE Open
    <3>1. /\ pipe' = FALSE /\ arrived' = 0 /\ inbox' = <<>> /\ handed' = <<>>
          /\ UNCHANGED <<connected, armed, slot, callbacks, reader>>
      BY <2>1 DEF Open
    <3>2. PeerTypes'
      <4>1. 0 \in 0 .. MaxMsgs /\ FALSE \in BOOLEAN
        BY <1>b
      <4>2. connected \in BOOLEAN /\ armed \in BOOLEAN
        BY <1>0 DEF PeerTypes
      <4> QED
        BY <3>1, <4>1, <4>2, Zenon DEF PeerTypes
    <3>3. QueueTypes'
      BY <3>1, <1>0, <1>e DEF QueueTypes
    <3> QED
      BY <3>1, <3>2, <3>3, <1>1, <1>2 DEF MessageTypes
  <2>2. CASE Receive
    BY <2>2, <1>1, <1>2, <1>3, <1>4 DEF MessageTypes, Receive, peer
  <2> QED
    BY <1>5, <1>6, <2>1, <2>2 DEF CallSucceeds, AllocAio, SetStarted
<1>7. CASE Connect \/ Disconnect
  <2>1. PeerTypes'
    BY <1>0, <1>7 DEF PeerTypes, Connect, Disconnect, net
  <2>2. UNCHANGED callbacks /\ UNCHANGED <<slot, inbox, handed>> /\ UNCHANGED reader
    BY <1>7 DEF Connect, Disconnect, net
  <2> QED
    BY <2>1, <2>2, <1>1, <1>2, <1>4 DEF MessageTypes
<1>8. CASE Arrive
  <2>1. /\ arrived' \in 1 .. MaxMsgs /\ inbox' = Append(inbox, arrived')
        /\ UNCHANGED <<pipe, connected, armed, slot, callbacks, handed, reader>>
    BY <1>0, <1>8, <1>b DEF PeerTypes, Arrive
  <2>2. inbox' \in Seq(1 .. MaxMsgs)
    BY <2>1, <1>0 DEF QueueTypes
  <2>3. PeerTypes' /\ QueueTypes'
    BY <2>1, <2>2, <1>0, <1>b DEF PeerTypes, QueueTypes
  <2> QED
    BY <2>1, <2>3, <1>1, <1>2 DEF MessageTypes
<1>9. ASSUME NEW m \in 0 .. MaxMsgs, ReceiveEnds(m), inbox' \in Seq(1 .. MaxMsgs)
      PROVE  MessageTypes'
  <2>1. /\ armed' = FALSE /\ slot' = m /\ UNCHANGED <<pipe, connected, arrived, handed, reader>>
        /\ callbacks' = callbacks \cup {[at |-> "called", msg |-> 0]}
    BY <1>9 DEF ReceiveEnds, peer
  <2>2. CallbackTypes'
    <3>1. Callable("called", 0)
      BY <1>b DEF Callable
    <3> DEFINE S == callbacks
    <3>2. callbacks' \subseteq S \cup {[at |-> "called", msg |-> 0]} /\ S \in SUBSET callbacks
      BY <2>1
    <3> HIDE DEF S
    <3> QED
      BY <3>1, <3>2, <1>0, CalledBack
  <2>3. QueueTypes'
    BY <2>1, <1>0, <1>9 DEF QueueTypes
  <2> QED
    BY <2>1, <2>2, <2>3, <1>1, <1>3 DEF MessageTypes
<1>10. CASE Received
  <2>1. Head(inbox) \in 1 .. MaxMsgs /\ Tail(inbox) \in Seq(1 .. MaxMsgs)
    BY <1>0, <1>10, HeadTyped DEF QueueTypes, Received
  <2> QED
    BY <2>1, <1>9, <1>10, <1>b DEF Received
<1>11. CASE ReceiveFails
  BY <1>0, <1>9, <1>11, <1>b DEF ReceiveFails, QueueTypes
<1>12. ASSUME NEW c \in callbacks, AsyncReadMsg(c) PROVE MessageTypes'
  <2>0. UNCHANGED <<pipe, connected, arrived>> /\ UNCHANGED reader /\ UNCHANGED <<slot, inbox>>
        /\ armed' \in BOOLEAN
    BY <1>0, <1>12 DEF AsyncReadMsg, TakeResult, Rearm, Hand, RecvAio, PeerTypes, peer
  <2>1. CASE TakeResult(c)
    <3>1. slot \in 0 .. MaxMsgs /\ UNCHANGED handed
      BY <2>1, <1>0 DEF QueueTypes, TakeResult
    <3>2. CASE slot = 0
      <4>1. callbacks' \subseteq callbacks
        BY <2>1, <3>2 DEF TakeResult, Returns
      <4>2. CallbackTypes'
        BY <4>1, <1>0 DEF CallbackTypes, Callable
      <4> QED
        BY <4>2, <3>1, <2>0, <1>1, <1>3, <1>4 DEF MessageTypes
    <3>3. CASE slot # 0
      <4>1. callbacks' = (callbacks \ {c}) \cup {[at |-> "rearm", msg |-> slot]}
        BY <2>1, <3>3 DEF TakeResult, GoesOn
      <4>2. CallbackTypes'
        BY <4>1, <3>1, <3>3, <1>0, CalledBack DEF Callable
      <4> QED
        BY <4>2, <3>1, <2>0, <1>1, <1>3, <1>4 DEF MessageTypes
    <3> QED
      BY <3>2, <3>3
  <2>2. CASE Rearm(c)
    <3>1. callbacks' = (callbacks \ {c}) \cup {[at |-> "hand", msg |-> c.msg]} /\ UNCHANGED handed
      BY <2>2 DEF Rearm, GoesOn
    <3>2. Callable("hand", c.msg)
      BY <2>2, <1>0, <1>12 DEF Rearm, CallbackTypes, Callable
    <3>3. CallbackTypes'
      BY <3>1, <3>2, <1>0, CalledBack
    <3> QED
      BY <3>1, <3>3, <2>0, <1>1, <1>3, <1>4 DEF MessageTypes
  <2>3. CASE Hand(c)
    <3>1. /\ handed' = handed \/ handed' = Append(handed, c.msg)
          /\ callbacks' \subseteq callbacks /\ c.msg \in 1 .. MaxMsgs
      BY <2>3, <1>0, <1>12, <1>b DEF Hand, HandOver, Returns, CallbackTypes, Callable
    <3>2. QueueTypes' /\ CallbackTypes'
      <4>1. CallbackTypes'
        BY <3>1, <1>0 DEF CallbackTypes, Callable
      <4>2. handed' \in Seq(1 .. MaxMsgs)
        <5>1. handed \in Seq(1 .. MaxMsgs)
          BY <1>0 DEF QueueTypes
        <5>2. Append(handed, c.msg) \in Seq(1 .. MaxMsgs)
          BY <3>1, <5>1, AppendProperties
        <5> QED
          BY <3>1, <5>1, <5>2
      <4>3. QueueTypes'
        BY <2>0, <4>2, <1>0 DEF QueueTypes
      <4> QED
        BY <4>1, <4>3
    <3> QED
      BY <3>2, <2>0, <1>1, <1>3 DEF MessageTypes
  <2> QED
    BY <1>12, <2>1, <2>2, <2>3 DEF AsyncReadMsg
<1>13. ASSUME NEW c \in callbacks, Callback(c) PROVE MessageTypes'
  <2>0. UNCHANGED <<pipe, connected, arrived>> /\ UNCHANGED reader /\ UNCHANGED slot
        /\ armed' \in BOOLEAN
    BY <1>0, <1>13 DEF Callback, LookAtResult, ReceiveAnother, HandAndRearm, RecvAio, PeerTypes, peer
  <2>1. CASE LookAtResult(c)
    <3>1. /\ UNCHANGED <<slot, inbox, handed>>
          /\ callbacks' \subseteq callbacks \cup {[at |-> "receive", msg |-> 0]}
      BY <2>1 DEF LookAtResult, GoesOn, Returns
    <3>2. CallbackTypes'
      <4>1. Callable("receive", 0)
        BY <1>b DEF Callable
      <4> DEFINE S == callbacks
      <4>2. callbacks' \subseteq S \cup {[at |-> "receive", msg |-> 0]} /\ S \in SUBSET callbacks
        BY <3>1
      <4> HIDE DEF S
      <4> QED
        BY <4>1, <4>2, <1>0, CalledBack
    <3> QED
      BY <3>1, <3>2, <2>0, <1>1, <1>3, <1>4 DEF MessageTypes
  <2>2. CASE ReceiveAnother(c)
    <3>1. CASE Returns(c) /\ UNCHANGED inbox
      <4>1. callbacks' \subseteq callbacks /\ UNCHANGED <<slot, inbox, handed>>
        BY <2>2, <3>1 DEF ReceiveAnother, Returns
      <4>2. CallbackTypes'
        BY <4>1, <1>0 DEF CallbackTypes, Callable
      <4> QED
        BY <4>1, <4>2, <2>0, <1>1, <1>3, <1>4 DEF MessageTypes
    <3>2. CASE inbox # <<>> /\ GoesOn(c, "hand", Head(inbox)) /\ inbox' = Tail(inbox)
      <4>1. Head(inbox) \in 1 .. MaxMsgs /\ Tail(inbox) \in Seq(1 .. MaxMsgs)
        BY <1>0, <3>2, HeadTyped DEF QueueTypes
      <4>2. /\ UNCHANGED handed
            /\ callbacks' \subseteq callbacks \cup {[at |-> "hand", msg |-> Head(inbox)]}
        BY <2>2, <3>2 DEF ReceiveAnother, GoesOn
      <4>3. Callable("hand", Head(inbox))
        BY <4>1, <1>b DEF Callable
      <4>4. CallbackTypes'
        BY <4>2, <4>3, <1>0, CalledBack
      <4>5. QueueTypes'
        BY <4>1, <4>2, <3>2, <2>0, <1>0 DEF QueueTypes
      <4> QED
        BY <4>4, <4>5, <2>0, <1>1, <1>3 DEF MessageTypes
    <3> QED
      BY <2>2, <3>1, <3>2 DEF ReceiveAnother
  <2>3. CASE HandAndRearm(c)
    <3>1. /\ handed' = Append(handed, c.msg) /\ callbacks' \subseteq callbacks /\ UNCHANGED inbox
          /\ c.msg \in 1 .. MaxMsgs
      BY <2>3, <1>0, <1>13, <1>b DEF HandAndRearm, HandOver, Returns, CallbackTypes, Callable
    <3>2. CallbackTypes'
      BY <3>1, <1>0 DEF CallbackTypes, Callable
    <3>3. QueueTypes'
      BY <3>1, <2>0, <1>0 DEF QueueTypes
    <3> QED
      BY <3>2, <3>3, <2>0, <1>1, <1>3 DEF MessageTypes
  <2> QED
    BY <1>13, <2>1, <2>2, <2>3 DEF Callback
<1>14. CASE ReadMessage
  <2>1. Head(inbox) \in 1 .. MaxMsgs /\ Tail(inbox) \in Seq(1 .. MaxMsgs)
    BY <1>0, <1>14, HeadTyped DEF QueueTypes, ReadMessage
  <2>2. Size[Head(inbox)] \in Nat
    BY <2>1, <1>b
  <2>3. /\ cap' \in {Size[Head(inbox)], cap} /\ len' = Size[Head(inbox)] /\ held' = Head(inbox)
        /\ handed' = Append(handed, Head(inbox)) /\ inbox' = Tail(inbox)
        /\ UNCHANGED <<pipe, connected, arrived, armed, slot, callbacks, relayed>>
    BY <1>14 DEF ReadMessage, peer
  <2>4. ReaderTypes'
    <3>1. cap \in Nat /\ relayed \in Seq(1 .. MaxMsgs)
      BY <1>0 DEF ReaderTypes
    <3>2. len' \in Nat /\ cap' \in Nat
      <4>1. len' = Size[Head(inbox)] /\ (cap' = Size[Head(inbox)] \/ cap' = cap)
        BY <2>3
      <4> QED
        BY <2>2, <3>1, <4>1
    <3>3. held' \in 0 .. MaxMsgs /\ relayed' = relayed
      BY <2>1, <2>3, <1>b
    <3> QED
      BY <3>1, <3>2, <3>3 DEF ReaderTypes
  <2>5. QueueTypes'
    BY <2>1, <2>3, <1>0 DEF QueueTypes
  <2>6. armed' \in BOOLEAN
    BY <2>3, <1>0 DEF PeerTypes
  <2> QED
    BY <2>3, <2>4, <2>5, <2>6, <1>2, <1>3 DEF MessageTypes
<1>15. CASE Relay \/ ShowMessage
  <2>1. /\ held' = 0 /\ UNCHANGED <<len, cap>>
        /\ UNCHANGED <<pipe, connected, arrived, armed, slot, inbox, handed, callbacks>>
        /\ relayed' = relayed \/ (held # 0 /\ relayed' = Append(relayed, held))
    BY <1>15 DEF Relay, ShowMessage, peer, net
  <2>2. relayed' \in Seq(1 .. MaxMsgs)
    <3>1. relayed \in Seq(1 .. MaxMsgs) /\ (held # 0 => held \in 1 .. MaxMsgs)
      BY <1>0, <1>b DEF ReaderTypes
    <3>2. ASSUME held # 0 PROVE Append(relayed, held) \in Seq(1 .. MaxMsgs)
      BY <3>1, <3>2, AppendProperties
    <3> QED
      BY <2>1, <3>1, <3>2
  <2>3. ReaderTypes'
    BY <2>1, <2>2, <1>0, <1>b DEF ReaderTypes
  <2>4. armed' \in BOOLEAN
    BY <2>1, <1>0 DEF PeerTypes
  <2> QED
    BY <2>1, <2>3, <2>4, <1>2, <1>3, <1>4 DEF MessageTypes
<1>16. CASE UNCHANGED vars
  BY <1>5, <1>16 DEF vars
<1> QED
  BY <1>5, <1>6, <1>7, <1>8, <1>10, <1>11, <1>12, <1>13, <1>14, <1>15, <1>16
     DEF Next, New, CallStart, CallFails, CallStop, Stop, StopAio, AioStopped, Delete, DeleteBlocking

\* The types hold before there is a connector.
LEMMA TypesInitial == Init => CallTypes /\ MessageTypes
<1> SUFFICES ASSUME Init PROVE CallTypes /\ MessageTypes
  OBVIOUS
<1>1. MaxMsgs \in Nat /\ MaxStarts \in Nat /\ BufferSize \in Nat /\ <<>> \in Seq(1 .. MaxMsgs)
  BY ConnectorAssumption, EmptySeq
<1>2. CallTypes
  BY <1>1 DEF Init, CallTypes
<1>3. PeerTypes
  <2>1. 0 \in 0 .. MaxMsgs /\ FALSE \in BOOLEAN
    BY <1>1
  <2> QED
    BY <2>1, Zenon DEF Init, PeerTypes
<1>4. QueueTypes /\ ReaderTypes /\ CallbackTypes
  BY <1>1 DEF Init, QueueTypes, ReaderTypes, CallbackTypes
<1> QED
  BY <1>2, <1>3, <1>4 DEF MessageTypes

\* The invariant and the two halves of the types give the type invariant.
LEMMA NngTyped == NngInv /\ CallTypes /\ MessageTypes => TypeOK
BY DEF NngInv, OwnerInv, Apps, CallTypes, MessageTypes, PeerTypes, QueueTypes, ReaderTypes,
       CallbackTypes, Callable, TypeOK

-----------------------------------------------------------------------------
(* Those of the LiveLink source.                                           *)

\* The subjects in hand and those seen good are in the list, the names LiveLink
\* and the source know are names of subjects, and no time is past MaxTime.
MapTypes ==
    /\ initialized \in SUBSET Names /\ registered \in SUBSET Names
    /\ DOMAIN lastUpdate \in SUBSET Names /\ leaving \in Names

PackageTypes ==
    /\ DOMAIN finiteAt \in SUBSET list
    /\ \A h \in Handlers : Range(job[h]) \in SUBSET list

TimeTypes ==
    /\ clock \in 0 .. MaxTime /\ {bIsValid} \subseteq BOOLEAN
    /\ server \in {"nng", "udp", "tcp", "nothing"}

LiveTypes == MapTypes /\ PackageTypes /\ TimeTypes

\* There is a name, which leaving has when no subject leaves.
LEMMA SomeoneNamed == Someone \in Names
<1>1. \E n \in Names : TRUE
  BY LiveLinkAssumption DEF LiveLinkAssumption, Names
<1> QED
  BY <1>1 DEF Someone

\* The Unreal source's types hold initially.
LEMMA LiveTypesInitial == LiveInit => LiveTypes
<1> SUFFICES ASSUME LiveInit PROVE LiveTypes
  OBVIOUS
<1>1. /\ DOMAIN lastUpdate = {} /\ DOMAIN finiteAt = {}
      /\ \A h \in Handlers : Range(job[h]) = {}
  BY DEF LiveInit, Range
<1>2. leaving \in Names
  BY SomeoneNamed DEF LiveInit
<1>3. 0 \in 0 .. MaxTime
  BY LiveLinkAssumption DEF LiveLinkAssumption
<1> QED
  BY <1>1, <1>2, <1>3 DEF LiveInit, LiveTypes, MapTypes, PackageTypes, TimeTypes

\* Every step of the Unreal source keeps its types.
LEMMA LiveTypesStep == LiveInv /\ LiveTypes /\ [LiveNext]_liveVars => LiveTypes'
<1> SUFFICES ASSUME LiveInv, LiveTypes, [LiveNext]_liveVars PROVE LiveTypes'
  OBVIOUS
<1>0. MapTypes /\ PackageTypes /\ TimeTypes
  BY DEF LiveTypes
<1>a. UNCHANGED <<maps, registered, leaving>> => MapTypes'
  BY <1>0 DEF MapTypes, maps
<1>b. UNCHANGED <<list, finiteAt, job>> => PackageTypes'
  BY <1>0 DEF PackageTypes
<1>c. UNCHANGED <<clock, bIsValid, server>> => TimeTypes'
  BY <1>0 DEF TimeTypes
<1>d. \A h \in Handlers : at[h] # "idle" => Subject(h) \in Names
  BY InHand DEF Subject, Names
<1>1. CASE ReceiveClient
  <2>1. TimeTypes'
    BY <1>1, <1>0 DEF ReceiveClient, StartServer, TimeTypes
  <2> QED
    BY <1>1, <2>1, <1>a, <1>b DEF ReceiveClient, LiveTypes, sweep, package
<1>2. CASE Tock
  <2>1. TimeTypes'
    BY <1>2, <1>0, LiveLinkAssumption DEF Tock, TimeTypes, LiveLinkAssumption
  <2> QED
    BY <1>2, <2>1, <1>a, <1>b DEF Tock, LiveTypes, sweep, package
<1>3. ASSUME NEW h \in Handlers, NEW news \in SUBSET Uuids, NEW bad \in SUBSET Uuids,
             OnPackage(h, news, bad)
      PROVE  LiveTypes'
  <2>1. list' \in SUBSET Uuids /\ list \subseteq list'
    BY <1>3 DEF OnPackage, LiveInv, JobInv
  <2>2. PICK order \in SetToSeqs(list' \ bad) : job' = [job EXCEPT ![h] = order]
    BY <1>3 DEF OnPackage, Begin
  <2>3. order \in Seq(Uuids) /\ Range(order) \subseteq list'
    <3>1. list' \ bad \in SUBSET Uuids
      BY <2>1
    <3> QED
      BY <3>1, OrderFacts
  <2>4. job'[h] = order /\ \A g \in Handlers \ {h} : job'[g] = job[g]
    BY <2>2, <2>3, JobsChange DEF LiveInv
  <2>5. DOMAIN finiteAt' = DOMAIN finiteAt \cup Range(order)
    BY <1>3, <2>4 DEF OnPackage
  <2>6. PackageTypes'
    <3>1. DOMAIN finiteAt' \in SUBSET list'
      BY <2>1, <2>3, <2>5, <1>0 DEF PackageTypes
    <3>2. ASSUME NEW g \in Handlers PROVE Range(job'[g]) \in SUBSET list'
      <4>1. CASE g = h
        BY <2>3, <2>4, <4>1
      <4>2. CASE g # h
        <5>1. job'[g] = job[g] /\ Range(job[g]) \in SUBSET list
          BY <2>4, <4>2, <1>0 DEF PackageTypes
        <5> QED
          BY <2>1, <5>1
      <4> QED
        BY <4>1, <4>2
    <3> QED
      BY <3>1, <3>2 DEF PackageTypes
  <2> QED
    <3>1. UNCHANGED <<maps, registered, leaving>> /\ UNCHANGED <<clock, bIsValid, server>>
      BY <1>3 DEF OnPackage, sweep
    <3> QED
      BY <2>6, <3>1, <1>a, <1>c DEF LiveTypes
<1>4. ASSUME NEW h \in Handlers, Find(h) \/ PushFrame(h) PROVE LiveTypes'
  BY <1>4, <1>a, <1>b, <1>c DEF Find, PushFrame, Step, LiveTypes, sweep
<1>5. ASSUME NEW h \in Handlers, PushStatic(h) \/ Add(h) PROVE LiveTypes'
  <2>1. Subject(h) \in Names
    BY <1>5, <1>d DEF PushStatic, Add, Step
  <2>2. MapTypes'
    BY <1>5, <2>1, <1>0 DEF PushStatic, Add, Step, MapTypes, maps, sweep
  <2> QED
    BY <1>5, <2>2, <1>b, <1>c DEF PushStatic, Add, Step, LiveTypes
<1>6. ASSUME NEW h \in Handlers, Stamp(h) PROVE LiveTypes'
  <2>1. /\ Subject(h) \in Names /\ Range(Tail(job[h])) \subseteq Range(job[h])
        /\ Tail(job[h]) \in Seq(Uuids) /\ job' = [job EXCEPT ![h] = Tail(job[h])]
    BY <1>6, <1>d, InHand DEF Stamp, Step
  <2>2. MapTypes'
    <3>1. DOMAIN lastUpdate' = DOMAIN lastUpdate \cup {Subject(h)}
      BY <1>6 DEF Stamp, Stamped
    <3> QED
      BY <1>6, <2>1, <3>1, <1>0 DEF Stamp, Step, MapTypes, sweep
  <2>3. job'[h] = Tail(job[h]) /\ \A g \in Handlers \ {h} : job'[g] = job[g]
    BY <2>1, JobsChange DEF LiveInv
  <2>4. \A g \in Handlers : Range(job'[g]) \subseteq Range(job[g])
    BY <2>1, <2>3
  <2>5. UNCHANGED <<list, finiteAt>>
    BY <1>6 DEF Stamp, Step
  <2>6. PackageTypes'
    BY <2>4, <2>5, <1>0 DEF PackageTypes
  <2> QED
    BY <1>6, <2>2, <2>6, <1>c DEF Stamp, Step, LiveTypes
<1>7. CASE RemoveInactiveSubjects \/ SweepEnds
  BY <1>7, <1>a, <1>b, <1>c DEF RemoveInactiveSubjects, SweepEnds, LiveTypes, sweep, package
<1>8. CASE TakeOut
  <2>1. DOMAIN lastUpdate' \in SUBSET Names
    BY <1>8, <1>0 DEF TakeOut, Restrict, MapTypes
  <2>2. MapTypes'
    BY <1>8, <2>1, <1>0 DEF TakeOut, MapTypes
  <2> QED
    BY <1>8, <2>2, <1>b, <1>c DEF TakeOut, LiveTypes, package
<1>9. CASE RemoveSubject \/ Forget
  <2>1. MapTypes'
    BY <1>9, <1>0, SomeoneNamed DEF RemoveSubject, Forget, MapTypes, maps, sweep
  <2> QED
    BY <1>9, <2>1, <1>b, <1>c DEF RemoveSubject, Forget, LiveTypes, package
<1>10. CASE Shutdown \/ Stopped
  <2>1. TimeTypes'
    BY <1>10, <1>0 DEF Shutdown, Stopped, TimeTypes
  <2> QED
    BY <1>10, <2>1, <1>a, <1>b DEF Shutdown, Stopped, LiveTypes, sweep, package
<1>11. CASE UNCHANGED liveVars
  BY <1>11, <1>a, <1>b, <1>c DEF liveVars, LiveTypes, sweep, package
<1> QED
  BY <1>1, <1>2, <1>3, <1>4, <1>5, <1>6, <1>7, <1>8, <1>9, <1>10, <1>11
     DEF LiveNext, Handling, Sweeping

\* The source's types and invariant give its type invariant.
LEMMA LiveTyped == LiveInv /\ LiveTypes => LiveTypeOK
<1> SUFFICES ASSUME LiveInv, LiveTypes PROVE LiveTypeOK
  OBVIOUS
<1>1. JobInv /\ TimeInv /\ MapTypes /\ PackageTypes /\ TimeTypes
  BY DEF LiveInv, LiveTypes
<1>2. {clock, now} \cup Range(lastUpdate) \cup Range(finiteAt) \subseteq 0 .. MaxTime
  <2>1. \A t \in 0 .. clock : t \in 0 .. MaxTime
    BY <1>1, LiveLinkAssumption DEF LiveLinkAssumption, TimeTypes, TimeInv
  <2>2. now \in 0 .. clock /\ clock \in 0 .. MaxTime
    BY <1>1 DEF TimeInv, TimeTypes
  <2>3. \A t \in Range(lastUpdate) : t \in 0 .. clock
    BY <1>1 DEF TimeInv, Range
  <2>4. \A t \in Range(finiteAt) : t \in 0 .. clock
    BY <1>1 DEF TimeInv, Range
  <2> QED
    BY <2>1, <2>2, <2>3, <2>4
<1>3. client \in BOOLEAN /\ bIsValid \in BOOLEAN
  BY <1>1 DEF JobInv, TimeTypes
<1>4. \A h \in Handlers : Range(job[h]) \subseteq list /\ (at[h] = "idle") = (job[h] = <<>>)
  BY <1>1 DEF JobInv, PackageTypes
<1> QED
  BY <1>1, <1>2, <1>3, <1>4 DEF LiveTypeOK, JobInv, Stages, Spots, MapTypes, PackageTypes, TimeTypes

-----------------------------------------------------------------------------
(* The three of them beside one another.                                   *)

TypesInv ==
    /\ NngInv /\ HeardInv /\ CallTypes /\ MessageTypes
    /\ PingInv
    /\ LiveInv /\ LiveTypes

\* Whichever of the connectors, the ping server and the LiveLink source moves,
\* the state of all three keeps its types, and no reader's buffer is overrun.
THEOREM ConnectorsTyped == MCSpec => []ConnectorsTypeOK
<1>1. MCInit => TypesInv
  BY NngInitial, HeardInitial, TypesInitial, PingInitial, LiveInitial, LiveTypesInitial
     DEF MCInit, TypesInv
<1>2. TypesInv /\ [MCNext]_<<vars, pingVars, liveVars>> => TypesInv'
  <2> SUFFICES ASSUME TypesInv, [MCNext]_<<vars, pingVars, liveVars>> PROVE TypesInv'
    OBVIOUS
  <2>1. [Next]_vars /\ [PingNext]_pingVars /\ [LiveNext]_liveVars
    BY DEF MCNext
  <2> QED
    BY <2>1, NngStep, HeardStep, CallTyped, MessageTyped, PingStep, LiveStep, LiveTypesStep
       DEF TypesInv
<1>3. TypesInv => ConnectorsTypeOK
  BY NngTyped, PingTyped, LiveTyped DEF TypesInv, ConnectorsTypeOK, HeardInv, ReaderInv, BufferHolds
<1> QED
  BY <1>1, <1>2, <1>3, PTL DEF MCSpec

\* The composition is one of the three as each is alone, so what is proved of one
\* alone holds in it.
THEOREM ConnectorsApart == MCSpec => Spec /\ PingSpec /\ LiveSpec
<1>1. MCInit => Init /\ PingInit /\ LiveInit
  BY DEF MCInit
<1>2. [MCNext]_<<vars, pingVars, liveVars>>
        => [Next]_vars /\ [PingNext]_pingVars /\ [LiveNext]_liveVars
  BY DEF MCNext
<1> QED
  BY <1>1, <1>2, PTL DEF MCSpec, Spec, PingSpec, LiveSpec

=============================================================================
