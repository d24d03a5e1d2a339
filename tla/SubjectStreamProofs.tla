------------------------- MODULE SubjectStreamProofs -------------------------
(***************************************************************************)
(* Proofs about SubjectStream, for every set of subjects, every choice of  *)
(* skeletons, values, threshold, cast, period and queue capacity: types,   *)
(* that a synced subject is shown as its sender posed it, from the         *)
(* inductive invariant StreamInv, and that received skeletons stay whole.  *)
(***************************************************************************)
EXTENDS SubjectStream, TLAPS, SequenceTheorems

-----------------------------------------------------------------------------
(* Distances.                                                              *)

\* Dist is a metric: what is added to a distance by one more hop is bounded.
LEMMA DistFacts ==
    ASSUME NEW a \in Int, NEW b \in Int, NEW c \in Int
    PROVE  /\ Dist(a, b) \in Nat
           /\ Dist(a, a) = 0
           /\ Dist(a, b) = Dist(b, a)
           /\ Dist(a, c) <= Dist(a, b) + Dist(b, c)
BY DEF Dist

-----------------------------------------------------------------------------
(* Type correctness.                                                       *)

\* The initial lists and the application's edits keep a list well typed.
LEMMA FreshTyped ==
    ASSUME NEW sk \in Skeleton
    PROVE  IsList(FreshList(sk), Transform)
<1>1. \A i \in DOMAIN sk : sk[i] \in Joint
  BY StreamAssumption DEF StreamAssumption
<1>2. \A i \in DOMAIN sk : FreshTransform(sk[i]) \in Transform
  BY <1>1, StreamAssumption DEF FreshTransform, Transform, Channel, DeltaChannel
<1> QED
  BY <1>2 DEF IsList, FreshList

\* A write to one channel of one transform keeps a list well typed.
LEMMA MovedTyped ==
    ASSUME NEW ts, IsList(ts, Transform),
           NEW i \in DOMAIN ts, NEW c \in Channel, NEW v \in Value
    PROVE  IsList(Moved(ts, i, c, v), Transform)
<1>1. PICK sk \in Skeleton : ts \in [DOMAIN sk -> Transform]
  BY DEF IsList
<1>2. ts[i] \in Transform
  BY <1>1
<1>3. [name |-> ts[i].name, value |-> [ts[i].value EXCEPT ![c] = v], sent |-> ts[i].sent]
        \in Transform
  BY <1>2 DEF Transform
<1> QED
  BY <1>1, <1>3 DEF IsList, Moved

\* So does marking components as sent.
LEMMA MarkSentTyped ==
    ASSUME NEW ts, IsList(ts, Transform), NEW ps
    PROVE  IsList(MarkSent(ts, ps), Transform)
<1>1. PICK sk \in Skeleton : ts \in [DOMAIN sk -> Transform]
  BY DEF IsList
<1>2. ASSUME NEW i \in DOMAIN sk
      PROVE  [name |-> ts[i].name, value |-> ts[i].value,
              sent |-> [c \in DeltaChannel |->
                  IF <<i, c>> \in ps THEN ts[i].value[c] ELSE ts[i].sent[c]]] \in Transform
  BY <1>1 DEF Transform, Channel, DeltaChannel
<1> QED
  BY <1>1, <1>2 DEF IsList, MarkSent

\* The cast to float stays among the values.
LEMMA NarrowTyped == \A v \in Value : Narrow[v] \in Value
BY StreamAssumption DEF StreamAssumption

\* A queue has room for one packet at least.
LEMMA CapacityPositive == Capacity \in Nat \ {0}
BY StreamAssumption DEF StreamAssumption

\* What serialize() puts in a packet is well typed.
LEMMA SubjectDataTyped ==
    ASSUME NEW ts, IsList(ts, Transform)
    PROVE  IsList(SubjectData(ts), Received)
<1>1. PICK sk \in Skeleton : ts \in [DOMAIN sk -> Transform]
  BY DEF IsList
<1>2. ASSUME NEW i \in DOMAIN sk
      PROVE  [name |-> ts[i].name, value |-> [c \in Channel |-> Narrow[ts[i].value[c]]]]
                \in Received
  <2>1. ts[i] \in Transform
    BY <1>1, <1>2
  <2>2. ts[i].name \in Joint /\ \A c \in Channel : ts[i].value[c] \in Value
    BY <2>1 DEF Transform
  <2>3. \A c \in Channel : Narrow[ts[i].value[c]] \in Value
    BY <2>2, NarrowTyped
  <2> QED
    BY <2>2, <2>3 DEF Received
<1> QED
  BY <1>1, <1>2 DEF IsList, SubjectData

\* So is what serializeUpdate() puts there.
LEMMA SubjectUpdateTyped ==
    ASSUME NEW ts, IsList(ts, Transform), NEW junk
    PROVE  \A p \in DOMAIN SubjectUpdate(ts, junk) : SubjectUpdate(ts, junk)[p] \in Value
<1>1. PICK sk \in Skeleton : ts \in [DOMAIN sk -> Transform]
  BY DEF IsList
<1>2. ASSUME NEW p \in Changed(ts, junk)
      PROVE  Narrow[ts[p[1]].value[p[2]]] \in Value
  <2>1. p[1] \in DOMAIN ts /\ p[2] \in Channel
    BY <1>2 DEF Changed, DeltaChannel, Channel
  <2>2. ts[p[1]] \in Transform
    BY <2>1, <1>1
  <2>3. ts[p[1]].value[p[2]] \in Value
    BY <2>1, <2>2 DEF Transform
  <2> QED
    BY <2>3, NarrowTyped
<1> QED
  BY <1>2 DEF SubjectUpdate

\* Applying an update keeps a received list well typed.
LEMMA UpdatedTyped ==
    ASSUME NEW ts, IsList(ts, Received),
           NEW upd, \A p \in DOMAIN upd : upd[p] \in Value
    PROVE  IsList(Updated(ts, upd), Received)
<1>1. PICK sk \in Skeleton : ts \in [DOMAIN sk -> Received]
  BY DEF IsList
<1>2. ASSUME NEW i \in DOMAIN sk
      PROVE  [name |-> ts[i].name,
              value |-> [c \in Channel |->
                 IF <<i, c>> \in DOMAIN upd THEN upd[<<i, c>>] ELSE ts[i].value[c]]] \in Received
  BY <1>1 DEF Received
<1> QED
  BY <1>1, <1>2 DEF IsList, Updated

-----------------------------------------------------------------------------
(* Sequences of packets.                                                   *)

\* What parse() takes from the queue and what it leaves there.
LEMMA TailFacts ==
    ASSUME NEW S, NEW s \in Seq(S), s # <<>>
    PROVE  /\ Tail(s) \in Seq(S)
           /\ Len(s) \in Nat \ {0}
           /\ Len(Tail(s)) = Len(s) - 1
           /\ Head(s) = s[1]
           /\ \A k \in 1 .. Len(Tail(s)) : Tail(s)[k] = s[k + 1]
OBVIOUS

\* What write() leaves in the queue.
LEMMA AppendFacts ==
    ASSUME NEW S, NEW s \in Seq(S), NEW e
    PROVE  /\ Append(s, e) \in Seq(S \cup {e})
           /\ Len(s) \in Nat
           /\ Len(Append(s, e)) = Len(s) + 1
           /\ Append(s, e)[Len(s) + 1] = e
           /\ \A k \in 1 .. Len(s) : Append(s, e)[k] = s[k]
<1>1. s \in Seq(S \cup {e})
  OBVIOUS
<1> QED
  BY <1>1

\* The queue is a sequence; of what, PacketTyped says.
Sequential == \E S : net \in Seq(S)

Typed == TypeOK /\ Sequential

\* A packet well typed going into the queue leaves the queue well typed.
LEMMA WriteTyped ==
    ASSUME Typed, NEW packet, PacketTyped(packet), Write(packet)
    PROVE  /\ Sequential'
           /\ Len(net') <= Capacity
           /\ \A k \in 1 .. Len(net') : PacketTyped(net'[k])
           /\ linked' \in BOOLEAN
<1>1. CASE Len(net) < Capacity
  <2>1. PICK S : net \in Seq(S)
    BY DEF Typed, Sequential
  <2>2. net' = Append(net, packet) /\ linked' = TRUE
    BY <1>1 DEF Write
  <2>3. net' \in Seq(S \cup {packet}) /\ Len(net') = Len(net) + 1 /\ Len(net) \in Nat
    BY <2>1, <2>2, AppendFacts
  <2>4. ASSUME NEW k \in 1 .. Len(net')
        PROVE  PacketTyped(net'[k])
    <3>1. CASE k = Len(net) + 1
      <4>1. net'[k] = packet
        BY <3>1, <2>1, <2>2, AppendFacts
      <4> QED
        BY <4>1
    <3>2. CASE k \in 1 .. Len(net)
      <4>1. net'[k] = net[k]
        BY <3>2, <2>1, <2>2, AppendFacts
      <4> QED
        BY <3>2, <4>1 DEF Typed, TypeOK
    <3> QED
      BY <2>3, <3>1, <3>2
  <2>5. Len(net') <= Capacity
    BY <1>1, <2>3, CapacityPositive
  <2> QED
    BY <2>2, <2>3, <2>4, <2>5 DEF Sequential
<1>2. CASE ~(Len(net) < Capacity)
  <2>1. net' = net /\ linked' = FALSE
    BY <1>2 DEF Write
  <2> QED
    BY <2>1 DEF Typed, TypeOK, Sequential
<1> QED
  BY <1>1, <1>2

\* Taking the oldest packet leaves the queue well typed.
LEMMA TakeTyped ==
    ASSUME Typed, net # <<>>, net' = Tail(net)
    PROVE  /\ Sequential'
           /\ Len(net') <= Capacity
           /\ \A k \in 1 .. Len(net') : PacketTyped(net'[k])
           /\ PacketTyped(Head(net))
<1>1. PICK S : net \in Seq(S)
  BY DEF Typed, Sequential
<1>2. /\ net' \in Seq(S) /\ Len(net) \in Nat \ {0} /\ Len(net') = Len(net) - 1
      /\ Head(net) = net[1]
      /\ \A k \in 1 .. Len(net') : net'[k] = net[k + 1]
  BY <1>1, TailFacts
<1>3. Len(net) <= Capacity /\ \A k \in 1 .. Len(net) : PacketTyped(net[k])
  BY DEF Typed, TypeOK
<1>4. \A k \in 1 .. Len(net') : k + 1 \in 1 .. Len(net)
  BY <1>2
<1>5. \A k \in 1 .. Len(net') : PacketTyped(net'[k])
  BY <1>2, <1>3, <1>4
<1>6. PacketTyped(Head(net))
  <2>1. 1 \in 1 .. Len(net)
    BY <1>2
  <2> QED
    BY <2>1, <1>2, <1>3
<1>7. Len(net') <= Capacity
  BY <1>2, <1>3, CapacityPositive
<1> QED
  BY <1>2, <1>5, <1>6, <1>7 DEF Sequential

\* The application's writes and rebuilt skeletons.
LEMMA SenderTyped ==
    ASSUME Typed, NEW u \in Subject, NEW ts, IsList(ts, Transform),
           xforms' = [xforms EXCEPT ![u] = ts],
           rebuilt' \in SUBSET Subject,
           UNCHANGED <<enabled, broken, loopVars, receiverVars>>
    PROVE  Typed'
<1>1. DOMAIN xforms' = Subject /\ \A w \in Subject : IsList(xforms'[w], Transform)
  BY DEF Typed, TypeOK
<1> QED
  BY <1>1 DEF Typed, TypeOK, Sequential, loopVars, receiverVars

\* serialize() hands the connector a well-typed packet.
LEMMA SerializeFullTyped ==
    ASSUME Typed, SerializeFull,
           frame' \in 0 .. (KeyframePeriod - 1),
           UNCHANGED <<enabled, broken, receiverVars>>
    PROVE  Typed'
<1> DEFINE marked == [u \in Subject |->
                        IF u \in Enabled THEN MarkAllSent(xforms[u]) ELSE xforms[u]]
           packet == [data    |-> [u \in Enabled |-> SubjectData(xforms[u])],
                      update  |-> [u \in Enabled |-> SubjectUpdate(marked[u], {})],
                      linked  |-> linked,
                      rebuilt |-> rebuilt \ Enabled,
                      pose    |-> [u \in Enabled |-> Pose(xforms[u])],
                      base    |-> [u \in Subject |-> Baseline(xforms'[u])]]
<1>1. /\ xforms' = [u \in Subject |->
                      IF u \in Enabled THEN MarkSent(marked[u], Changed(marked[u], {}))
                                       ELSE xforms[u]]
      /\ rebuilt' = rebuilt \ Enabled
      /\ Write(packet)
  BY DEF SerializeFull
<1>2. \A u \in Subject : IsList(xforms[u], Transform)
  BY DEF Typed, TypeOK
<1>3. \A u \in Subject : IsList(marked[u], Transform)
  BY <1>2, MarkSentTyped DEF MarkAllSent
<1>4. \A u \in Subject : IsList(xforms'[u], Transform)
  BY <1>1, <1>2, <1>3, MarkSentTyped
<1>5. PacketTyped(packet)
  <2>1. Enabled \subseteq Subject
    BY DEF Enabled
  <2>2. \A u \in Enabled : IsList(SubjectData(xforms[u]), Received)
    BY <2>1, <1>2, SubjectDataTyped
  <2>3. \A u \in Enabled : \A p \in DOMAIN SubjectUpdate(marked[u], {}) :
           SubjectUpdate(marked[u], {})[p] \in Value
    BY <2>1, <1>3, SubjectUpdateTyped
  <2>4. linked \in BOOLEAN /\ rebuilt \ Enabled \subseteq Subject
    BY DEF Typed, TypeOK
  <2> HIDE DEF marked
  <2> QED
    BY <2>1, <2>2, <2>3, <2>4 DEF PacketTyped
<1>6. /\ Sequential'
      /\ Len(net') <= Capacity
      /\ \A k \in 1 .. Len(net') : PacketTyped(net'[k])
      /\ linked' \in BOOLEAN
  <2> HIDE DEF packet
  <2> QED
    BY <1>1, <1>5, WriteTyped
<1>7. DOMAIN xforms' = Subject /\ rebuilt' \subseteq Subject
  BY <1>1 DEF Typed, TypeOK
<1> HIDE DEF marked, packet
<1> QED
  BY <1>4, <1>6, <1>7 DEF Typed, TypeOK, receiverVars

\* So does serializeUpdate(), whatever the uninitialised values were.
LEMMA SerializeUpdateTyped ==
    ASSUME Typed, NEW junk, SerializeUpdate(junk),
           frame' \in 0 .. (KeyframePeriod - 1),
           UNCHANGED <<enabled, broken, receiverVars>>
    PROVE  Typed'
<1> DEFINE packet == [data    |-> [u \in {} |-> <<>>],
                      update  |-> [u \in Enabled |-> SubjectUpdate(xforms[u], junk[u])],
                      linked  |-> linked,
                      rebuilt |-> rebuilt,
                      pose    |-> [u \in Enabled |-> Pose(xforms[u])],
                      base    |-> [u \in Subject |-> Baseline(xforms'[u])]]
<1>1. /\ xforms' = [u \in Subject |->
                      IF u \in Enabled THEN MarkSent(xforms[u], Changed(xforms[u], junk[u]))
                                       ELSE xforms[u]]
      /\ rebuilt' = rebuilt
      /\ Write(packet)
  BY DEF SerializeUpdate
<1>2. \A u \in Subject : IsList(xforms[u], Transform)
  BY DEF Typed, TypeOK
<1>3. \A u \in Subject : IsList(xforms'[u], Transform)
  BY <1>1, <1>2, MarkSentTyped
<1>4. PacketTyped(packet)
  <2>1. Enabled \subseteq Subject
    BY DEF Enabled
  <2>2. \A u \in Enabled : \A p \in DOMAIN SubjectUpdate(xforms[u], junk[u]) :
           SubjectUpdate(xforms[u], junk[u])[p] \in Value
    BY <2>1, <1>2, SubjectUpdateTyped
  <2>3. linked \in BOOLEAN /\ rebuilt \subseteq Subject
    BY DEF Typed, TypeOK
  <2> QED
    BY <2>1, <2>2, <2>3 DEF PacketTyped
<1>5. /\ Sequential'
      /\ Len(net') <= Capacity
      /\ \A k \in 1 .. Len(net') : PacketTyped(net'[k])
      /\ linked' \in BOOLEAN
  <2> HIDE DEF packet
  <2> QED
    BY <1>1, <1>4, WriteTyped
<1>6. DOMAIN xforms' = Subject
  BY <1>1
<1> HIDE DEF packet
<1> QED
  BY <1>1, <1>3, <1>5, <1>6 DEF Typed, TypeOK, receiverVars

\* parse() leaves well-typed lists, for any packet well typed.
LEMMA ParsedTyped ==
    ASSUME Typed, NEW m, PacketTyped(m)
    PROVE  /\ DOMAIN Parsed(m) = DOMAIN items \cup DOMAIN m.data
           /\ \A u \in DOMAIN Parsed(m) : IsList(Parsed(m)[u], Received)
<1> DEFINE full == [u \in DOMAIN items \cup DOMAIN m.data |->
                      IF u \notin DOMAIN m.data THEN items[u]
                      ELSE ParseSubject(IF u \in DOMAIN items THEN items[u] ELSE <<>>,
                                        m.data[u])]
<1>1. \A u \in DOMAIN full : IsList(full[u], Received)
  BY DEF Typed, TypeOK, PacketTyped, ParseSubject
<1>2. Parsed(m) = [u \in DOMAIN full |->
                     IF u \in DOMAIN m.update THEN Updated(full[u], m.update[u])
                                              ELSE full[u]]
  BY DEF Parsed
<1>3. DOMAIN full = DOMAIN items \cup DOMAIN m.data
  OBVIOUS
<1> HIDE DEF full
<1>4. ASSUME NEW u \in DOMAIN Parsed(m)
      PROVE  IsList(Parsed(m)[u], Received)
  <2>1. CASE u \in DOMAIN m.update
    <3>1. \A p \in DOMAIN m.update[u] : m.update[u][p] \in Value
      BY <2>1 DEF PacketTyped
    <3>2. IsList(Updated(full[u], m.update[u]), Received)
      BY <3>1, <1>1, <1>2, UpdatedTyped
    <3> QED
      BY <2>1, <3>2, <1>2
  <2>2. CASE u \notin DOMAIN m.update
    BY <2>2, <1>1, <1>2
  <2> QED
    BY <2>1, <2>2
<1> QED
  BY <1>2, <1>3, <1>4

\* The frame counter stays below the period.
LEMMA FrameTyped ==
    /\ 0 \in 0 .. (KeyframePeriod - 1)
    /\ Typed /\ NextFrame => frame' \in 0 .. (KeyframePeriod - 1)
<1>1. KeyframePeriod \in Nat \ {0}
  BY StreamAssumption DEF StreamAssumption
<1> QED
  BY <1>1 DEF Typed, TypeOK, NextFrame

\* The initial lists are typed.
LEMMA TypedInit == Init => Typed
<1> SUFFICES ASSUME Init PROVE Typed
  OBVIOUS
<1>1. PICK sk \in [Subject -> Skeleton] : xforms = [u \in Subject |-> FreshList(sk[u])]
  BY DEF Init
<1>2. DOMAIN xforms = Subject /\ \A u \in Subject : IsList(xforms[u], Transform)
  BY <1>1, FreshTyped
<1>3. net \in Seq({}) /\ Len(net) <= Capacity /\ 1 .. Len(net) = {}
  BY CapacityPositive DEF Init
<1>4. frame \in 0 .. (KeyframePeriod - 1)
  BY FrameTyped DEF Init
<1>5. DOMAIN items = {}
  BY DEF Init
<1>6. Sequential
  BY <1>3 DEF Sequential
<1> QED
  BY <1>2, <1>3, <1>4, <1>5, <1>6 DEF Init, Typed, TypeOK

\* Every step of the application, the loop, the network and the receiver keeps the types.
LEMMA TypedNext == Typed /\ [Next]_vars => Typed'
<1> SUFFICES ASSUME Typed, [Next]_vars PROVE Typed'
  OBVIOUS
<1>1. ASSUME NEW u \in Subject, NEW i \in DOMAIN xforms[u], NEW c \in Channel,
             NEW v \in Value, Move(u, i, c, v)
      PROVE  Typed'
  <2>1. IsList(Moved(xforms[u], i, c, v), Transform)
    BY MovedTyped DEF Typed, TypeOK
  <2>2. rebuilt' \in SUBSET Subject
    BY <1>1 DEF Move, Typed, TypeOK
  <2> QED
    BY <1>1, <2>1, <2>2, SenderTyped DEF Move
<1>2. ASSUME NEW u \in Subject, SetEnabled(u)
      PROVE  Typed'
  BY <1>2 DEF SetEnabled, Typed, TypeOK, Sequential, loopVars, receiverVars
<1>3. ASSUME NEW u \in Subject, NEW sk \in Skeleton, Rebuild(u, sk)
      PROVE  Typed'
  <2>1. rebuilt' \in SUBSET Subject
    BY <1>3 DEF Rebuild, Typed, TypeOK
  <2> QED
    BY <1>3, <2>1, FreshTyped, SenderTyped DEF Rebuild
<1>4. ASSUME NEW u \in Subject, Upset(u)
      PROVE  Typed'
  BY <1>4 DEF Upset, Typed, TypeOK, Sequential, loopVars, receiverVars
<1>5. CASE StreamFrame
  <2>1. /\ frame' \in 0 .. (KeyframePeriod - 1)
        /\ UNCHANGED <<enabled, broken, receiverVars>>
    BY <1>5, FrameTyped DEF StreamFrame
  <2>2. CASE UNCHANGED <<xforms, net, linked, rebuilt>>
    BY <2>1, <2>2 DEF Typed, TypeOK, Sequential, receiverVars
  <2>3. CASE SerializeFull
    BY <2>1, <2>3, SerializeFullTyped
  <2>4. ASSUME NEW junk, SerializeUpdate(junk)
        PROVE  Typed'
    BY <2>1, <2>4, SerializeUpdateTyped
  <2> QED
    BY <1>5, <2>2, <2>3, <2>4 DEF StreamFrame
<1>6. CASE Redo
  BY <1>6, FrameTyped DEF Redo, Typed, TypeOK, Sequential, senderVars, receiverVars
<1>7. CASE Parse
  <2>1. /\ Sequential' /\ Len(net') <= Capacity
        /\ \A k \in 1 .. Len(net') : PacketTyped(net'[k])
        /\ PacketTyped(Head(net))
    BY <1>7, TakeTyped DEF Parse
  <2>2. items' = Parsed(Head(net)) /\ synced' \subseteq Subject
    <3>1. synced \subseteq Subject /\ DOMAIN Head(net).data \subseteq Subject
      BY <2>1 DEF Typed, TypeOK, PacketTyped
    <3> QED
      BY <3>1, <1>7 DEF Parse
  <2>3. DOMAIN items' \subseteq Subject /\ \A u \in DOMAIN items' : IsList(items'[u], Received)
    <3>1. DOMAIN items \subseteq Subject /\ DOMAIN Head(net).data \subseteq Subject
      BY <2>1 DEF Typed, TypeOK, PacketTyped
    <3> QED
      BY <3>1, <2>1, <2>2, ParsedTyped
  <2> QED
    BY <1>7, <2>1, <2>2, <2>3 DEF Parse, Typed, TypeOK, senderVars
<1>8. CASE Lose
  <2>1. /\ Sequential' /\ Len(net') <= Capacity
        /\ \A k \in 1 .. Len(net') : PacketTyped(net'[k])
    BY <1>8, TakeTyped DEF Lose
  <2> QED
    BY <1>8, <2>1 DEF Lose, Typed, TypeOK, senderVars
<1>9. CASE Restart
  <2>1. net' \in Seq({}) /\ Len(net') <= Capacity /\ 1 .. Len(net') = {}
    BY <1>9, CapacityPositive DEF Restart
  <2>2. DOMAIN items' = {} /\ Sequential'
    BY <1>9, <2>1 DEF Restart, Sequential
  <2> QED
    BY <1>9, <2>1, <2>2 DEF Restart, Typed, TypeOK, senderVars
<1>10. CASE UNCHANGED vars
  BY <1>10 DEF Typed, TypeOK, Sequential, vars, senderVars, loopVars, receiverVars
<1> QED
  BY <1>1, <1>2, <1>3, <1>4, <1>5, <1>6, <1>7, <1>8, <1>9, <1>10 DEF Next

\* Whatever the sender does to its subjects and whichever packets are lost, the
\* lists at both ends and the packets between them keep the shape of some
\* skeleton, and the queue never outgrows the connector's.
THEOREM TypeCorrect == Spec => []TypeOK
<1>1. Typed => TypeOK
  BY DEF Typed
<1> QED
  BY <1>1, TypedInit, TypedNext, PTL DEF Spec

-----------------------------------------------------------------------------
(* What one packet does to one list.                                       *)

\* The fields of a well-typed list.
LEMMA ListFacts ==
    ASSUME NEW ts, IsList(ts, Transform), NEW i \in DOMAIN ts
    PROVE  /\ \A c \in Channel : ts[i].value[c] \in Value
           /\ \A c \in DeltaChannel : /\ ts[i].value[c] \in Value
                                      /\ ts[i].sent[c] \in Value \cup {Unset}
<1>1. ts[i] \in Transform
  BY DEF IsList
<1> QED
  BY <1>1 DEF Transform, Channel, DeltaChannel

\* Values are integers, none of them is Unset, and the cast errs by Ulp at most.
LEMMA ValueFacts ==
    /\ Value \subseteq Int
    /\ Unset \notin Value
    /\ Threshold \in Nat /\ Ulp \in Nat
    /\ \A v \in Value : Narrow[v] \in Value /\ Dist(Narrow[v], v) <= Ulp
BY StreamAssumption DEF StreamAssumption

\* serializeUpdate() on a list whose values last sent are set: the update
\* accounts for every change of them, leaves the pose within the threshold,
\* and leaves them set.
LEMMA UpdateFacts ==
    ASSUME NEW ts, IsList(ts, Transform), Known(ts), NEW junk
    PROVE  LET ts2 == MarkSent(ts, Changed(ts, junk))
           IN  /\ Takes(SubjectUpdate(ts, junk), Baseline(ts), Baseline(ts2))
               /\ Near(Pose(ts), Baseline(ts2))
               /\ Known(ts2)
<1> DEFINE ps  == Changed(ts, junk)
           ts2 == MarkSent(ts, ps)
           upd == SubjectUpdate(ts, junk)
<1>1. /\ DOMAIN ts2 = DOMAIN ts
      /\ \A i \in DOMAIN ts :
          /\ ts2[i].name = ts[i].name
          /\ \A c \in DeltaChannel :
              ts2[i].sent[c] = IF <<i, c>> \in ps THEN ts[i].value[c] ELSE ts[i].sent[c]
  BY DEF MarkSent
<1>2. DOMAIN upd = ps /\ \A i, c : <<i, c>> \in ps => upd[<<i, c>>] = Narrow[ts[i].value[c]]
  BY DEF SubjectUpdate
<1>3. \A i \in DOMAIN ts, c \in DeltaChannel :
         <<i, c>> \in ps <=> Dist(ts[i].value[c], ts[i].sent[c]) > Threshold
  BY ValueFacts DEF Changed, Known
<1>4. \A i \in DOMAIN ts, c \in DeltaChannel : ts[i].value[c] \in Value /\ ts[i].sent[c] \in Value
  BY ListFacts DEF Known
<1> HIDE DEF ps, ts2, upd
<1>5. \A i \in DOMAIN ts, c \in DeltaChannel : ts2[i].sent[c] \in Value
  BY <1>1, <1>4
<1>6. Takes(upd, Baseline(ts), Baseline(ts2))
  BY <1>1, <1>2, <1>4 DEF Takes, Baseline
<1>7. ASSUME NEW i \in DOMAIN ts, NEW c \in DeltaChannel
      PROVE  Dist(ts[i].value[c], ts2[i].sent[c]) <= Threshold
  <2>1. ts[i].value[c] \in Int /\ ts[i].sent[c] \in Int
    BY <1>4, ValueFacts
  <2>2. CASE <<i, c>> \in ps
    <3>1. ts2[i].sent[c] = ts[i].value[c]
      BY <2>2, <1>1
    <3>2. Dist(ts[i].value[c], ts[i].value[c]) = 0
      BY <2>1, DistFacts
    <3> QED
      BY <3>1, <3>2, ValueFacts
  <2>3. CASE <<i, c>> \notin ps
    <3>1. ts2[i].sent[c] = ts[i].sent[c]
      BY <2>3, <1>1
    <3>2. ~(Dist(ts[i].value[c], ts[i].sent[c]) > Threshold)
      BY <2>3, <1>3
    <3>3. Dist(ts[i].value[c], ts[i].sent[c]) \in Nat
      BY <2>1, DistFacts
    <3> QED
      BY <3>1, <3>2, <3>3, ValueFacts
  <2> QED
    BY <2>2, <2>3
<1>8. Near(Pose(ts), Baseline(ts2))
  BY <1>1, <1>4, <1>5, <1>7 DEF Near, Pose, Baseline
<1>9. Known(ts2)
  BY <1>1, <1>5 DEF Known
<1> QED
  BY <1>6, <1>8, <1>9 DEF ps, ts2, upd

\* serialize() on any list: the update that follows the full data in the same
\* packet is empty, the data hold what was last sent, and that is the pose.
LEMMA FullFacts ==
    ASSUME NEW ts, IsList(ts, Transform)
    PROVE  LET mk  == MarkAllSent(ts)
               ts2 == MarkSent(mk, Changed(mk, {}))
           IN  /\ Agrees(Updated(SubjectData(ts), SubjectUpdate(mk, {})), Baseline(ts2))
               /\ Near(Pose(ts), Baseline(ts2))
               /\ Known(ts2)
<1> DEFINE mk  == MarkAllSent(ts)
           ps  == Changed(mk, {})
           ts2 == MarkSent(mk, ps)
           upd == SubjectUpdate(mk, {})
<1>1. /\ DOMAIN mk = DOMAIN ts
      /\ \A i \in DOMAIN ts :
          /\ mk[i].name = ts[i].name /\ mk[i].value = ts[i].value
          /\ \A c \in DeltaChannel : mk[i].sent[c] = ts[i].value[c]
  BY DEF MarkAllSent, MarkSent
<1>2. \A i \in DOMAIN ts, c \in DeltaChannel : ts[i].value[c] \in Value
  BY ListFacts
<1>3. ps = {}
  <2> HIDE DEF mk
  <2>1. \A i \in DOMAIN ts, c \in DeltaChannel :
          /\ mk[i].sent[c] # Unset
          /\ Dist(mk[i].value[c], mk[i].sent[c]) = 0
    <3>1. \A v \in Value : v # Unset /\ Dist(v, v) = 0
      BY ValueFacts, DistFacts
    <3> QED
      BY <3>1, <1>1, <1>2
  <2>2. SUFFICES ASSUME NEW p \in (DOMAIN mk) \X DeltaChannel, p \in ps
                PROVE  FALSE
    BY DEF Changed
  <2>3. p[1] \in DOMAIN ts /\ p[2] \in DeltaChannel
    BY <1>1
  <2>4. Dist(mk[p[1]].value[p[2]], mk[p[1]].sent[p[2]]) > Threshold
    BY <2>1, <2>2, <2>3 DEF Changed
  <2>5. Dist(mk[p[1]].value[p[2]], mk[p[1]].sent[p[2]]) = 0
    BY <2>1, <2>3
  <2> QED
    BY <2>4, <2>5, ValueFacts
<1>4. DOMAIN upd = {}
  BY <1>3 DEF SubjectUpdate
<1>5. /\ DOMAIN ts2 = DOMAIN ts
      /\ \A i \in DOMAIN ts :
          /\ ts2[i].name = ts[i].name
          /\ \A c \in DeltaChannel : ts2[i].sent[c] = ts[i].value[c]
  <2> HIDE DEF mk, ps
  <2> QED
    BY <1>1, <1>3 DEF MarkSent
<1> HIDE DEF mk, ps, ts2, upd
<1> DEFINE rs == Updated(SubjectData(ts), upd)
<1>6. /\ DOMAIN rs = DOMAIN ts
      /\ \A i \in DOMAIN ts :
          /\ rs[i].name = ts[i].name
          /\ \A c \in DeltaChannel : rs[i].value[c] = Narrow[ts[i].value[c]]
  BY <1>4 DEF Updated, SubjectData, Channel, DeltaChannel
<1> HIDE DEF rs
<1>7. Agrees(rs, Baseline(ts2))
  BY <1>2, <1>5, <1>6 DEF Agrees, Baseline
<1>8. \A v \in Value : Dist(v, v) <= Threshold
  BY ValueFacts, DistFacts
<1>9. Near(Pose(ts), Baseline(ts2))
  BY <1>2, <1>5, <1>8 DEF Near, Pose, Baseline
<1>10. Known(ts2)
  BY <1>2, <1>5 DEF Known
<1> QED
  BY <1>7, <1>9, <1>10 DEF mk, ps, ts2, upd, rs

\* parseUpdate() carries agreement over from the baseline before the packet to
\* the one after it; without an update for the subject nothing has to be done.
LEMMA TakesFacts ==
    ASSUME NEW rs, NEW upd, NEW b, NEW b2, Agrees(rs, b), Takes(upd, b, b2)
    PROVE  /\ Agrees(Updated(rs, upd), b2)
           /\ DOMAIN upd = {} => Agrees(rs, b2)
<1>1. \A c \in DeltaChannel : c \in Channel
  BY DEF Channel, DeltaChannel
<1>2. DOMAIN rs = DOMAIN b /\ DOMAIN b2 = DOMAIN b
  BY DEF Agrees, Takes
<1>3. ASSUME NEW i \in DOMAIN b, NEW c \in DeltaChannel
      PROVE  /\ b2[i].sent[c] \in Value
             /\ Updated(rs, upd)[i].value[c] = Narrow[b2[i].sent[c]]
  <2>1. c \in Channel /\ i \in DOMAIN rs
    BY <1>1, <1>2
  <2>2. Updated(rs, upd)[i].value[c] =
            IF <<i, c>> \in DOMAIN upd THEN upd[<<i, c>>] ELSE rs[i].value[c]
    BY <2>1 DEF Updated
  <2>3. b[i].sent[c] \in Value /\ rs[i].value[c] = Narrow[b[i].sent[c]]
    BY DEF Agrees
  <2>4. IF <<i, c>> \in DOMAIN upd
        THEN b2[i].sent[c] \in Value /\ upd[<<i, c>>] = Narrow[b2[i].sent[c]]
        ELSE b2[i].sent[c] = b[i].sent[c]
    BY DEF Takes
  <2> QED
    BY <2>2, <2>3, <2>4
<1>4. \A i \in DOMAIN b : Updated(rs, upd)[i].name = b2[i].name
  BY <1>2 DEF Agrees, Takes, Updated
<1>5. Agrees(Updated(rs, upd), b2)
  BY <1>2, <1>3, <1>4 DEF Agrees, Updated
<1>6. DOMAIN upd = {} => Agrees(rs, b2)
  BY DEF Agrees, Takes
<1> QED
  BY <1>5, <1>6

\* What agrees with a baseline shows a pose near it to Threshold + Ulp.
LEMMA AccuracyFacts ==
    ASSUME NEW rs, NEW pose, NEW b, Agrees(rs, b), Near(pose, b)
    PROVE  /\ Names(rs) = Names(pose)
           /\ \A i \in DOMAIN rs, c \in DeltaChannel :
                 Dist(rs[i].value[c], pose[i].value[c]) <= Threshold + Ulp
<1>1. DOMAIN rs = DOMAIN b /\ DOMAIN pose = DOMAIN b
      /\ \A i \in DOMAIN b : rs[i].name = b[i].name /\ pose[i].name = b[i].name
  BY DEF Agrees, Near
<1>2. Names(rs) = Names(pose)
  BY <1>1 DEF Names
<1>3. ASSUME NEW i \in DOMAIN b, NEW c \in DeltaChannel
      PROVE  Dist(rs[i].value[c], pose[i].value[c]) <= Threshold + Ulp
  <2>1. PICK s \in Value, v \in Value :
           /\ rs[i].value[c] = Narrow[s] /\ pose[i].value[c] = v
           /\ Dist(v, s) <= Threshold
    BY DEF Agrees, Near
  <2>2. Narrow[s] \in Int /\ s \in Int /\ v \in Int /\ Dist(Narrow[s], s) <= Ulp
    BY ValueFacts
  <2>3. /\ Dist(Narrow[s], v) <= Dist(Narrow[s], s) + Dist(s, v)
        /\ Dist(s, v) = Dist(v, s)
        /\ Dist(Narrow[s], v) \in Nat /\ Dist(Narrow[s], s) \in Nat /\ Dist(v, s) \in Nat
    BY <2>2, DistFacts
  <2> QED
    BY <2>1, <2>2, <2>3, ValueFacts
<1> QED
  BY <1>1, <1>2, <1>3

-----------------------------------------------------------------------------
(* The invariant.                                                          *)

Inv == Typed /\ StreamInv

\* A serializer's packet m: it continues whatever history is up to date, and
\* leaves its own history up to date.  Whether the connector takes it or drops
\* it, the invariant holds after.
LEMMA WriteKeepsInv ==
    ASSUME Inv, NEW m, Write(m), PacketOK(m), m.linked = linked,
           \A h : UpToDate(h) => Continues(h, m),
           UpToDate(m.base)', SentKnown', UNCHANGED receiverVars
    PROVE  StreamInv'
<1>1. PICK S : net \in Seq(S)
  BY DEF Inv, Typed, Sequential
<1>2. StreamInv
  BY DEF Inv
<1>3. CASE ~(Len(net) < Capacity)
  <2>1. net' = net /\ linked' = FALSE
    BY <1>3 DEF Write
  <2>2. QueueSound' /\ Joined'
    BY <1>2, <2>1 DEF StreamInv, QueueSound, Joined, receiverVars
  <2>3. SyncedSound'
    BY <1>2 DEF StreamInv, SyncedSound, receiverVars
  <2> QED
    BY <2>2, <2>3 DEF StreamInv
<1>4. CASE Len(net) < Capacity
  <2>1. net' = Append(net, m) /\ linked' = TRUE
    BY <1>4 DEF Write
  <2>2. /\ Len(net) \in Nat /\ Len(net') = Len(net) + 1
        /\ net'[Len(net) + 1] = m
        /\ \A k \in 1 .. Len(net) : net'[k] = net[k]
        /\ net' # <<>>
    <3>1. /\ Len(net) \in Nat /\ Len(net') = Len(net) + 1
          /\ net'[Len(net) + 1] = m
          /\ \A k \in 1 .. Len(net) : net'[k] = net[k]
      BY <1>1, <2>1, AppendFacts
    <3> QED
      BY <3>1
  <2>3. ASSUME NEW k \in 1 .. Len(net')
        PROVE  PacketOK(net'[k])
    <3>1. CASE k = Len(net) + 1
      BY <3>1, <2>2
    <3>2. CASE k \in 1 .. Len(net)
      BY <3>2, <2>2, <1>2 DEF StreamInv, QueueSound
    <3> QED
      BY <2>2, <3>1, <3>2
  <2>4. ASSUME NEW k \in 2 .. Len(net'), net'[k].linked
        PROVE  Continues(net'[k-1].base, net'[k])
    <3>1. CASE k = Len(net) + 1
      <4>1. net # <<>> /\ Len(net) \in 1 .. Len(net) /\ k - 1 = Len(net)
        BY <3>1, <2>2
      <4>2. net'[k-1] = net[Len(net)] /\ net'[k] = m /\ linked
        BY <4>1, <3>1, <2>2, <2>4
      <4>3. UpToDate(net[Len(net)].base)
        BY <4>1, <4>2, <1>2 DEF StreamInv, QueueSound
      <4> QED
        BY <4>2, <4>3
    <3>2. CASE k \in 2 .. Len(net)
      <4>1. net'[k] = net[k] /\ net'[k-1] = net[k-1]
        BY <3>2, <2>2
      <4> QED
        BY <4>1, <3>2, <2>4, <1>2 DEF StreamInv, QueueSound
    <3> QED
      BY <2>2, <3>1, <3>2
  <2>5. net'[Len(net')] = m
    BY <2>2
  <2>6. QueueSound'
    BY <2>3, <2>4, <2>5 DEF QueueSound, UpToDate
  <2>7. Joined'
    <3>1. SUFFICES ASSUME net'[1].linked, ~missed
                   PROVE  Continues(shown.base, net'[1])
      BY <2>2 DEF Joined, receiverVars
    <3>2. CASE net = <<>>
      <4>1. net'[1] = m
        BY <3>2, <2>2
      <4>2. UpToDate(shown.base)
        BY <3>1, <3>2, <4>1, <1>2 DEF StreamInv, Joined
      <4> QED
        BY <4>1, <4>2
    <3>3. CASE net # <<>>
      <4>1. net'[1] = net[1]
        BY <3>3, <1>1, <2>2
      <4> QED
        BY <3>1, <3>3, <4>1, <1>2 DEF StreamInv, Joined
    <3> QED
      BY <3>2, <3>3
  <2>8. SyncedSound'
    BY <1>2 DEF StreamInv, SyncedSound, receiverVars
  <2> QED
    BY <2>6, <2>7, <2>8 DEF StreamInv
<1> QED
  BY <1>3, <1>4

\* What the sender's own steps, which leave the queue and the receiver alone,
\* must keep for the invariant to hold after.
LEMMA SenderKeepsInv ==
    ASSUME Inv, UNCHANGED <<net, linked, receiverVars>>, rebuilt \subseteq rebuilt',
           \A u \in Subject \ rebuilt' : Baseline(xforms'[u]) = Baseline(xforms[u])
    PROVE  StreamInv'
<1>1. StreamInv
  BY DEF Inv
<1>2. SentKnown'
  <2> SUFFICES ASSUME NEW u \in Subject \ rebuilt'
               PROVE  Known(xforms'[u])
    BY DEF SentKnown
  <2>1. Known(xforms[u])
    BY <1>1 DEF StreamInv, SentKnown
  <2>2. Baseline(xforms'[u]) = Baseline(xforms[u])
    OBVIOUS
  <2>3. DOMAIN xforms'[u] = DOMAIN xforms[u]
    BY <2>2 DEF Baseline
  <2>4. \A i \in DOMAIN xforms[u] : xforms'[u][i].sent = xforms[u][i].sent
    <3> TAKE i \in DOMAIN xforms[u]
    <3>1. Baseline(xforms'[u])[i].sent = Baseline(xforms[u])[i].sent
      BY <2>2
    <3> QED
      BY <3>1, <2>3 DEF Baseline
  <2> QED
    BY <2>1, <2>3, <2>4 DEF Known
<1>3. \A h : UpToDate(h) => \A u \in Subject \ rebuilt' : Baseline(xforms'[u]) = h[u]
  BY DEF UpToDate
<1>4. QueueSound' /\ Joined' /\ SyncedSound'
  BY <1>1, <1>3 DEF StreamInv, QueueSound, Joined, SyncedSound, UpToDate, receiverVars
<1> QED
  BY <1>2, <1>4 DEF StreamInv

\* An update without components takes a history to itself.
LEMMA EmptyTakes == ASSUME NEW b PROVE Takes([p \in {} |-> 0], b, b)
BY DEF Takes

\* SubjectList::serialize: a full packet sets a new baseline that it carries itself.
LEMMA SerializeFullKeepsInv ==
    ASSUME Inv, SerializeFull, UNCHANGED <<enabled, broken, receiverVars>>
    PROVE  StreamInv'
<1> DEFINE mk(u) == MarkAllSent(xforms[u])
           ts2(u) == MarkSent(mk(u), Changed(mk(u), {}))
           marked == [u \in Subject |->
                        IF u \in Enabled THEN MarkAllSent(xforms[u]) ELSE xforms[u]]
           packet == [data    |-> [u \in Enabled |-> SubjectData(xforms[u])],
                      update  |-> [u \in Enabled |-> SubjectUpdate(marked[u], {})],
                      linked  |-> linked,
                      rebuilt |-> rebuilt \ Enabled,
                      pose    |-> [u \in Enabled |-> Pose(xforms[u])],
                      base    |-> [u \in Subject |-> Baseline(xforms'[u])]]
<1>1. Enabled \subseteq Subject
  BY DEF Enabled
<1>2. /\ xforms' = [u \in Subject |->
                      IF u \in Enabled THEN MarkSent(marked[u], Changed(marked[u], {}))
                                       ELSE xforms[u]]
      /\ rebuilt' = rebuilt \ Enabled
      /\ Write(packet)
  BY DEF SerializeFull
<1>3. \A u \in Enabled : marked[u] = mk(u)
  BY <1>1
<1>4. /\ \A u \in Enabled : xforms'[u] = ts2(u)
      /\ \A u \in Subject \ Enabled : xforms'[u] = xforms[u]
  <2> HIDE DEF marked, mk
  <2> QED
    BY <1>1, <1>2, <1>3
<1>5. PICK m : m = packet
  OBVIOUS
<1>6. /\ DOMAIN m.data = Enabled /\ DOMAIN m.update = Enabled /\ DOMAIN m.pose = Enabled
      /\ m.linked = linked /\ m.rebuilt = rebuilt \ Enabled
      /\ \A u \in Enabled : /\ m.data[u] = SubjectData(xforms[u])
                            /\ m.update[u] = SubjectUpdate(mk(u), {})
                            /\ m.pose[u] = Pose(xforms[u])
      /\ \A u \in Subject : m.base[u] = Baseline(xforms'[u])
  <2> HIDE DEF marked, mk
  <2> QED
    BY <1>3, <1>5
<1>7. \A u \in Enabled :
        /\ Agrees(Updated(m.data[u], m.update[u]), m.base[u])
        /\ Near(m.pose[u], m.base[u])
        /\ Known(xforms'[u])
  <2> TAKE u \in Enabled
  <2>1. IsList(xforms[u], Transform)
    BY <1>1 DEF Inv, Typed, TypeOK
  <2>2. /\ Agrees(Updated(SubjectData(xforms[u]), SubjectUpdate(mk(u), {})), Baseline(ts2(u)))
        /\ Near(Pose(xforms[u]), Baseline(ts2(u)))
        /\ Known(ts2(u))
    BY <2>1, FullFacts
  <2> HIDE DEF mk, ts2
  <2> QED
    BY <2>2, <1>1, <1>4, <1>6
<1> HIDE DEF mk, ts2, marked, packet
<1>8. PacketOK(m)
  BY <1>1, <1>6, <1>7 DEF PacketOK
<1>9. SentKnown'
  BY <1>2, <1>4, <1>7 DEF SentKnown, Inv, StreamInv
<1>10. ASSUME NEW h, UpToDate(h) PROVE Continues(h, m)
  <2> SUFFICES ASSUME NEW u \in Subject, u \notin rebuilt, u \notin Enabled
               PROVE  Takes(UpdateOf(m, u), h[u], m.base[u])
    BY <1>6 DEF Continues
  <2>1. h[u] = Baseline(xforms[u]) /\ m.base[u] = Baseline(xforms[u])
    BY <1>4, <1>6, <1>10 DEF UpToDate
  <2>2. UpdateOf(m, u) = [p \in {} |-> 0]
    BY <1>6 DEF UpdateOf
  <2> QED
    BY <2>1, <2>2, EmptyTakes
<1>11. UpToDate(m.base)'
  BY <1>6 DEF UpToDate
<1> QED
  BY <1>2, <1>5, <1>6, <1>8, <1>9, <1>10, <1>11, WriteKeepsInv

\* SubjectList::serializeUpdate: an update takes the last baseline to the next.
LEMMA SerializeUpdateKeepsInv ==
    ASSUME Inv, NEW junk, SerializeUpdate(junk), UNCHANGED <<enabled, broken, receiverVars>>
    PROVE  StreamInv'
<1> DEFINE ts2(u) == MarkSent(xforms[u], Changed(xforms[u], junk[u]))
           packet == [data    |-> [u \in {} |-> <<>>],
                      update  |-> [u \in Enabled |-> SubjectUpdate(xforms[u], junk[u])],
                      linked  |-> linked,
                      rebuilt |-> rebuilt,
                      pose    |-> [u \in Enabled |-> Pose(xforms[u])],
                      base    |-> [u \in Subject |-> Baseline(xforms'[u])]]
<1>1. Enabled \subseteq Subject
  BY DEF Enabled
<1>2. /\ xforms' = [u \in Subject |-> IF u \in Enabled THEN ts2(u) ELSE xforms[u]]
      /\ rebuilt' = rebuilt
      /\ Write(packet)
  BY DEF SerializeUpdate
<1>3. PICK m : m = packet
  OBVIOUS
<1>4. /\ DOMAIN m.data = {} /\ DOMAIN m.update = Enabled /\ DOMAIN m.pose = Enabled
      /\ m.linked = linked /\ m.rebuilt = rebuilt
      /\ \A u \in Enabled : /\ m.update[u] = SubjectUpdate(xforms[u], junk[u])
                            /\ m.pose[u] = Pose(xforms[u])
      /\ \A u \in Subject : m.base[u] = Baseline(xforms'[u])
  BY <1>3
<1>5. \A u \in Enabled \ rebuilt :
        /\ Takes(m.update[u], Baseline(xforms[u]), m.base[u])
        /\ Near(m.pose[u], m.base[u])
        /\ Known(xforms'[u])
  <2> TAKE u \in Enabled \ rebuilt
  <2>1. IsList(xforms[u], Transform) /\ Known(xforms[u])
    BY <1>1 DEF Inv, Typed, TypeOK, StreamInv, SentKnown
  <2>2. /\ Takes(SubjectUpdate(xforms[u], junk[u]), Baseline(xforms[u]), Baseline(ts2(u)))
        /\ Near(Pose(xforms[u]), Baseline(ts2(u)))
        /\ Known(ts2(u))
    BY <2>1, UpdateFacts
  <2> HIDE DEF ts2
  <2> QED
    BY <2>2, <1>1, <1>2, <1>4
<1> HIDE DEF ts2, packet
<1>6. PacketOK(m)
  BY <1>1, <1>4, <1>5 DEF PacketOK
<1>7. SentKnown'
  BY <1>2, <1>5 DEF SentKnown, Inv, StreamInv
<1>8. ASSUME NEW h, UpToDate(h) PROVE Continues(h, m)
  <2> SUFFICES ASSUME NEW u \in Subject \ rebuilt
               PROVE  Takes(UpdateOf(m, u), h[u], m.base[u])
    BY <1>4 DEF Continues
  <2>1. h[u] = Baseline(xforms[u])
    BY <1>8 DEF UpToDate
  <2>2. CASE u \in Enabled
    BY <2>1, <2>2, <1>4, <1>5 DEF UpdateOf
  <2>3. CASE u \notin Enabled
    <3>1. m.base[u] = Baseline(xforms[u])
      BY <2>3, <1>2, <1>4
    <3>2. UpdateOf(m, u) = [p \in {} |-> 0]
      BY <2>3, <1>4 DEF UpdateOf
    <3> QED
      BY <2>1, <3>1, <3>2, EmptyTakes
  <2> QED
    BY <2>2, <2>3
<1>9. UpToDate(m.base)'
  BY <1>4 DEF UpToDate
<1> QED
  BY <1>2, <1>3, <1>4, <1>6, <1>7, <1>8, <1>9, WriteKeepsInv

\* Taking the oldest packet from the queue, to parse it or to lose it: what is
\* left is sound, and continues the packet taken or leads up to now.
LEMMA TakeKeepsQueue ==
    ASSUME Inv, net # <<>>, net' = Tail(net), UNCHANGED <<linked, rebuilt, xforms>>
    PROVE  /\ QueueSound'
           /\ net' # <<>> /\ net'[1].linked => Continues(Head(net).base, net'[1])
           /\ net' = <<>> /\ linked => UpToDate(Head(net).base)
           /\ PacketOK(Head(net))
           /\ Head(net).linked /\ ~missed => Continues(shown.base, Head(net))
<1>1. PICK S : net \in Seq(S)
  BY DEF Inv, Typed, Sequential
<1>2. QueueSound /\ Joined
  BY DEF Inv, StreamInv
<1>3. /\ net' \in Seq(S) /\ Len(net) \in Nat \ {0} /\ Len(net') = Len(net) - 1
      /\ Head(net) = net[1]
      /\ \A k \in 1 .. Len(net') : net'[k] = net[k + 1]
  BY <1>1, TailFacts
<1>4. \A k \in 1 .. Len(net') : PacketOK(net'[k])
  BY <1>2, <1>3 DEF QueueSound
<1>5. \A k \in 2 .. Len(net') : net'[k].linked => Continues(net'[k-1].base, net'[k])
  <2> SUFFICES ASSUME NEW k \in 2 .. Len(net'), net'[k].linked
               PROVE  Continues(net'[k-1].base, net'[k])
    OBVIOUS
  <2>1. net'[k] = net[k + 1] /\ net'[k - 1] = net[k] /\ k + 1 \in 2 .. Len(net)
    BY <1>3
  <2>2. net[k + 1].linked => Continues(net[(k + 1) - 1].base, net[k + 1])
    BY <2>1, <1>2 DEF QueueSound
  <2>3. (k + 1) - 1 = k
    OBVIOUS
  <2> QED
    BY <2>1, <2>2, <2>3
<1>6. net' # <<>> => net'[Len(net')] = net[Len(net)]
  BY <1>3
<1>7. QueueSound'
  BY <1>2, <1>3, <1>4, <1>5, <1>6 DEF QueueSound, UpToDate
<1>8. net' # <<>> /\ net'[1].linked => Continues(Head(net).base, net'[1])
  <2> SUFFICES ASSUME net' # <<>>, net'[1].linked
               PROVE  Continues(Head(net).base, net'[1])
    OBVIOUS
  <2>1. net'[1] = net[2] /\ 2 \in 2 .. Len(net) /\ Head(net) = net[2 - 1]
    BY <1>3
  <2> QED
    BY <2>1, <1>2 DEF QueueSound
<1>9. net' = <<>> /\ linked => UpToDate(Head(net).base)
  <2> SUFFICES ASSUME net' = <<>>, linked PROVE UpToDate(Head(net).base)
    OBVIOUS
  <2>1. Len(net) = 1
    BY <1>3
  <2> QED
    BY <2>1, <1>2, <1>3 DEF QueueSound
<1>10. PacketOK(Head(net))
  <2>1. 1 \in 1 .. Len(net)
    BY <1>3
  <2> QED
    BY <2>1, <1>2, <1>3 DEF QueueSound
<1>11. Head(net).linked /\ ~missed => Continues(shown.base, Head(net))
  BY <1>2, <1>3 DEF Joined
<1> QED
  BY <1>7, <1>8, <1>9, <1>10, <1>11

\* The list parse() leaves for a subject in the packet's full data, and for one
\* that was there before.
LEMMA ParsedFacts ==
    ASSUME NEW m, NEW u \in DOMAIN items \cup DOMAIN m.data
    PROVE  LET list == IF u \in DOMAIN m.data THEN m.data[u] ELSE items[u]
           IN  Parsed(m)[u] = IF u \in DOMAIN m.update THEN Updated(list, m.update[u]) ELSE list
BY DEF Parsed, ParseSubject

\* SubjectList::parse: the list agrees with the baseline of the packet it took.
LEMMA ParseKeepsInv == ASSUME Inv, Parse PROVE StreamInv'
<1> DEFINE kept(m) == IF m.linked /\ ~missed THEN synced ELSE {}
<1>1. PICK m : m = Head(net)
  OBVIOUS
<1>2. /\ net # <<>> /\ net' = Tail(net)
      /\ items' = Parsed(m)
      /\ synced' = (kept(m) \ m.rebuilt) \cup DOMAIN m.data
      /\ shown'.pose = m.pose /\ shown'.base = m.base
      /\ missed' = FALSE
      /\ UNCHANGED <<senderVars, frame, linked, rebuilt>>
  BY <1>1 DEF Parse
<1>3. /\ QueueSound'
      /\ net' # <<>> /\ net'[1].linked => Continues(m.base, net'[1])
      /\ net' = <<>> /\ linked => UpToDate(m.base)
      /\ PacketOK(m)
      /\ m.linked /\ ~missed => Continues(shown.base, m)
  BY <1>1, <1>2, TakeKeepsQueue DEF senderVars
<1>4. StreamInv /\ synced \subseteq Subject
  BY DEF Inv, Typed, TypeOK
<1>5. SentKnown'
  BY <1>2, <1>4 DEF StreamInv, SentKnown, senderVars
<1>6. Joined'
  BY <1>2, <1>3 DEF Joined, UpToDate, senderVars
<1>7. kept(m) \subseteq synced /\ (kept(m) # {} => m.linked /\ ~missed)
  OBVIOUS
<1> HIDE DEF kept
<1>8. synced \subseteq DOMAIN items
  BY <1>4 DEF StreamInv, SyncedSound
<1>9. synced' \subseteq DOMAIN items'
  BY <1>2, <1>7, <1>8 DEF Parsed
<1>10. ASSUME NEW u \in synced' PROVE Agrees(items'[u], shown'.base[u])
  <2>1. CASE u \in DOMAIN m.data
    <3>1. Agrees(Updated(m.data[u], m.update[u]), m.base[u]) /\ u \in DOMAIN m.update
      BY <2>1, <1>3 DEF PacketOK
    <3>2. items'[u] = Updated(m.data[u], m.update[u])
      BY <2>1, <3>1, <1>2, ParsedFacts
    <3> QED
      BY <3>1, <3>2, <1>2
  <2>2. CASE u \notin DOMAIN m.data
    <3>1. u \in kept(m) /\ u \notin m.rebuilt /\ u \in synced /\ u \in DOMAIN items /\ u \in Subject
      BY <2>2, <1>2, <1>4, <1>7, <1>8, <1>10
    <3>2. Takes(UpdateOf(m, u), shown.base[u], m.base[u])
      BY <2>2, <3>1, <1>3, <1>7 DEF Continues
    <3>3. Agrees(items[u], shown.base[u])
      BY <3>1, <1>4 DEF StreamInv, SyncedSound
    <3>4. /\ Agrees(Updated(items[u], UpdateOf(m, u)), m.base[u])
          /\ DOMAIN UpdateOf(m, u) = {} => Agrees(items[u], m.base[u])
      BY <3>2, <3>3, TakesFacts
    <3>5. items'[u] = IF u \in DOMAIN m.update THEN Updated(items[u], m.update[u]) ELSE items[u]
      BY <2>2, <3>1, <1>2, ParsedFacts
    <3> QED
      BY <3>4, <3>5, <1>2 DEF UpdateOf
  <2> QED
    BY <2>1, <2>2
<1>11. ASSUME NEW u \in synced', u \in DOMAIN m.pose
       PROVE  Near(shown'.pose[u], shown'.base[u])
  <2>1. u \notin m.rebuilt
    BY <1>2, <1>3 DEF PacketOK
  <2> QED
    BY <2>1, <1>2, <1>3, <1>11 DEF PacketOK
<1>12. SyncedSound'
  BY <1>2, <1>9, <1>10, <1>11 DEF SyncedSound
<1> QED
  BY <1>3, <1>5, <1>6, <1>12 DEF StreamInv

\* Nothing was sent, nothing is in flight, nothing is synced.
LEMMA StreamInvInit == Init => StreamInv
BY DEF Init, StreamInv, SentKnown, QueueSound, Joined, SyncedSound

\* Every step of the application, the loop, the network and the receiver keeps the invariant.
LEMMA StreamInvNext == Inv /\ [Next]_vars => StreamInv'
<1> SUFFICES ASSUME Inv, [Next]_vars PROVE StreamInv'
  OBVIOUS
<1>1. ASSUME NEW u \in Subject, NEW i \in DOMAIN xforms[u], NEW c \in Channel,
             NEW v \in Value, Move(u, i, c, v)
      PROVE  StreamInv'
  <2>1. Baseline(Moved(xforms[u], i, c, v)) = Baseline(xforms[u])
    BY DEF Moved, Baseline
  <2>2. \A w \in Subject : Baseline(xforms'[w]) = Baseline(xforms[w])
    <3>1. DOMAIN xforms = Subject
      BY DEF Inv, Typed, TypeOK
    <3>2. \A w \in Subject : xforms'[w] = IF w = u THEN Moved(xforms[u], i, c, v) ELSE xforms[w]
      BY <3>1, <1>1 DEF Move
    <3> HIDE DEF Moved
    <3> QED
      BY <2>1, <3>2
  <2> QED
    BY <2>2, <1>1, SenderKeepsInv DEF Move, loopVars
<1>2. ASSUME NEW u \in Subject, SetEnabled(u) PROVE StreamInv'
  BY <1>2, SenderKeepsInv DEF SetEnabled, loopVars
<1>3. ASSUME NEW u \in Subject, NEW sk \in Skeleton, Rebuild(u, sk)
      PROVE  StreamInv'
  <2>1. DOMAIN xforms = Subject
    BY DEF Inv, Typed, TypeOK
  <2>2. \A w \in Subject \ rebuilt' : xforms'[w] = xforms[w]
    BY <2>1, <1>3 DEF Rebuild
  <2> QED
    BY <2>2, <1>3, SenderKeepsInv DEF Rebuild, loopVars
<1>4. ASSUME NEW u \in Subject, Upset(u) PROVE StreamInv'
  BY <1>4, SenderKeepsInv DEF Upset, loopVars
<1>5. CASE StreamFrame
  <2>1. UNCHANGED <<enabled, broken, receiverVars>>
    BY <1>5 DEF StreamFrame
  <2>2. CASE UNCHANGED <<xforms, net, linked, rebuilt>>
    BY <2>1, <2>2, SenderKeepsInv
  <2>3. CASE SerializeFull
    BY <2>1, <2>3, SerializeFullKeepsInv
  <2>4. ASSUME NEW junk, SerializeUpdate(junk) PROVE StreamInv'
    BY <2>1, <2>4, SerializeUpdateKeepsInv
  <2> QED
    BY <1>5, <2>2, <2>3, <2>4 DEF StreamFrame
<1>6. CASE Redo
  BY <1>6, SenderKeepsInv DEF Redo, senderVars
<1>7. CASE Parse
  BY <1>7, ParseKeepsInv
<1>8. CASE Lose
  <2>1. /\ net # <<>> /\ net' = Tail(net) /\ missed' = TRUE
        /\ UNCHANGED <<senderVars, frame, linked, rebuilt, items, synced, shown>>
    BY <1>8 DEF Lose
  <2>2. QueueSound'
    BY <2>1, TakeKeepsQueue DEF senderVars
  <2> QED
    BY <2>1, <2>2 DEF StreamInv, SentKnown, Joined, SyncedSound, Inv, senderVars
<1>9. CASE Restart
  <2>1. /\ net' = <<>> /\ missed' = TRUE /\ synced' = {}
        /\ UNCHANGED <<senderVars, linked, rebuilt>>
    BY <1>9 DEF Restart
  <2>2. QueueSound'
    BY <2>1 DEF QueueSound
  <2> QED
    BY <2>1, <2>2 DEF StreamInv, SentKnown, Joined, SyncedSound, Inv, senderVars
<1>10. CASE UNCHANGED vars
  BY <1>10, SenderKeepsInv DEF vars, senderVars, loopVars
<1> QED
  BY <1>1, <1>2, <1>3, <1>4, <1>5, <1>6, <1>7, <1>8, <1>9, <1>10 DEF Next

\* The invariant that makes delta coding sound: chained through the packets in
\* flight, what the receiver holds is the cast of what the sender last sent.
THEOREM StreamCorrect == Spec => []StreamInv
<1>1. Init => Inv
  BY TypedInit, StreamInvInit DEF Inv
<1>2. Inv /\ [Next]_vars => Inv'
  BY TypedNext, StreamInvNext DEF Inv
<1>3. Inv => StreamInv
  BY DEF Inv
<1> QED
  BY <1>1, <1>2, <1>3, PTL DEF Spec

\* For any number of subjects, joints and packets in flight, and any pattern of
\* toggling, rebuilding, loss and restart: a synced subject is shown within
\* Threshold + Ulp of the pose its last packet was made from.
THEOREM Accurate == Spec => []ShownPoseAccurate
<1>1. StreamInv => ShownPoseAccurate
  <2> SUFFICES ASSUME StreamInv, NEW u \in synced \cap DOMAIN shown.pose
               PROVE  /\ u \in DOMAIN items
                      /\ Names(items[u]) = Names(shown.pose[u])
                      /\ \A i \in DOMAIN items[u], c \in DeltaChannel :
                            Dist(items[u][i].value[c], shown.pose[u][i].value[c])
                                <= Threshold + Ulp
    BY DEF ShownPoseAccurate
  <2>1. u \in DOMAIN items /\ Agrees(items[u], shown.base[u]) /\ Near(shown.pose[u], shown.base[u])
    BY DEF StreamInv, SyncedSound
  <2> QED
    BY <2>1, AccuracyFacts
<1> QED
  BY <1>1, StreamCorrect, PTL

-----------------------------------------------------------------------------
(* Skeletons stay whole.                                                   *)

\* No operation on a list changes its names; a fresh list has its skeleton's.
LEMMA NamesFacts ==
    ASSUME NEW ts
    PROVE  /\ \A i \in DOMAIN ts : \A c, v : Names(Moved(ts, i, c, v)) = Names(ts)
           /\ \A ps : Names(MarkSent(ts, ps)) = Names(ts)
           /\ Names(SubjectData(ts)) = Names(ts)
           /\ \A upd : Names(Updated(ts, upd)) = Names(ts)
           /\ \A sk \in Skeleton : Names(FreshList(sk)) = sk
<1>1. \A i \in DOMAIN ts : \A c, v : Names(Moved(ts, i, c, v)) = Names(ts)
  BY DEF Names, Moved
<1>2. \A ps : Names(MarkSent(ts, ps)) = Names(ts)
  BY DEF Names, MarkSent
<1>3. Names(SubjectData(ts)) = Names(ts)
  BY DEF Names, SubjectData
<1>4. \A upd : Names(Updated(ts, upd)) = Names(ts)
  BY DEF Names, Updated
<1>5. ASSUME NEW sk \in Skeleton PROVE Names(FreshList(sk)) = sk
  <2>1. sk = [i \in DOMAIN sk |-> sk[i]]
    BY StreamAssumption DEF StreamAssumption
  <2>2. Names(FreshList(sk)) = [i \in DOMAIN sk |-> sk[i]]
    BY DEF Names, FreshList, FreshTransform
  <2> QED
    BY <2>1, <2>2
<1> QED
  BY <1>1, <1>2, <1>3, <1>4, <1>5

\* The names in a packet's full data.
DataWhole(m) == \A u \in DOMAIN m.data : Names(m.data[u]) \in Skeleton

\* Both ends and the packets between them hold whole skeletons only.
Whole ==
    /\ \A u \in Subject : Names(xforms[u]) \in Skeleton
    /\ \A k \in 1 .. Len(net) : DataWhole(net[k])
    /\ SkeletonWhole

\* A packet with whole skeletons keeps the queue whole, queued or dropped.
LEMMA WriteWhole ==
    ASSUME Typed, Whole, NEW m, Write(m), DataWhole(m)
    PROVE  \A k \in 1 .. Len(net') : DataWhole(net'[k])
<1>1. PICK S : net \in Seq(S)
  BY DEF Typed, Sequential
<1>2. CASE net' = net
  BY <1>2 DEF Whole
<1>3. CASE net' = Append(net, m)
  <2>1. /\ Len(net) \in Nat /\ Len(net') = Len(net) + 1
        /\ net'[Len(net) + 1] = m
        /\ \A k \in 1 .. Len(net) : net'[k] = net[k]
    BY <1>1, <1>3, AppendFacts
  <2> TAKE k \in 1 .. Len(net')
  <2>2. CASE k = Len(net) + 1
    BY <2>1, <2>2
  <2>3. CASE k \in 1 .. Len(net)
    BY <2>1, <2>3 DEF Whole
  <2> QED
    BY <2>1, <2>2, <2>3
<1> QED
  BY <1>2, <1>3 DEF Write

\* What is left of a whole queue after its head is taken is whole.
LEMMA TakeWhole ==
    ASSUME Typed, Whole, net # <<>>, net' = Tail(net)
    PROVE  DataWhole(Head(net)) /\ \A k \in 1 .. Len(net') : DataWhole(net'[k])
<1>1. PICK S : net \in Seq(S)
  BY DEF Typed, Sequential
<1>2. /\ Len(net) \in Nat \ {0} /\ Len(net') = Len(net) - 1 /\ Head(net) = net[1]
      /\ \A k \in 1 .. Len(net') : net'[k] = net[k + 1]
  BY <1>1, TailFacts
<1>3. \A k \in 1 .. Len(net) : DataWhole(net[k])
  BY DEF Whole
<1>4. 1 \in 1 .. Len(net) /\ \A k \in 1 .. Len(net') : k + 1 \in 1 .. Len(net)
  BY <1>2
<1> QED
  BY <1>2, <1>3, <1>4

\* Every subject starts with one of the skeletons.
LEMMA WholeInit == Init => Whole
<1> SUFFICES ASSUME Init PROVE Whole
  OBVIOUS
<1>1. PICK sk \in [Subject -> Skeleton] : xforms = [u \in Subject |-> FreshList(sk[u])]
  BY DEF Init
<1>2. \A u \in Subject : Names(xforms[u]) \in Skeleton
  BY <1>1, NamesFacts
<1> QED
  BY <1>2 DEF Init, Whole, SkeletonWhole

\* No step mixes, grows or shrinks a joint list.
LEMMA WholeNext == Typed /\ Whole /\ [Next]_vars => Whole'
<1> SUFFICES ASSUME Typed, Whole, [Next]_vars PROVE Whole'
  OBVIOUS
<1> USE DEF SkeletonWhole
<1>0. DOMAIN xforms = Subject /\ \A u \in Subject : Names(xforms[u]) \in Skeleton
  BY DEF Typed, TypeOK, Whole
<1>1. ASSUME NEW u \in Subject, NEW i \in DOMAIN xforms[u], NEW c \in Channel,
             NEW v \in Value, Move(u, i, c, v)
      PROVE  Whole'
  <2>1. Names(Moved(xforms[u], i, c, v)) = Names(xforms[u])
    BY NamesFacts
  <2> QED
    BY <2>1, <1>0, <1>1 DEF Whole, Move, loopVars, receiverVars
<1>2. ASSUME NEW u \in Subject, SetEnabled(u) \/ Upset(u) PROVE Whole'
  BY <1>2 DEF Whole, SetEnabled, Upset, loopVars, receiverVars
<1>3. ASSUME NEW u \in Subject, NEW sk \in Skeleton, Rebuild(u, sk)
      PROVE  Whole'
  <2>1. Names(FreshList(sk)) \in Skeleton
    BY NamesFacts
  <2> QED
    BY <2>1, <1>0, <1>3 DEF Whole, Rebuild, loopVars, receiverVars
<1>4. ASSUME UNCHANGED <<enabled, broken, receiverVars>>, SerializeFull PROVE Whole'
  <2>1. \A u \in Subject : Names(xforms'[u]) = Names(xforms[u])
    <3> TAKE u \in Subject
    <3> DEFINE mk == MarkAllSent(xforms[u])
    <3>1. \/ xforms'[u] = xforms[u]
          \/ xforms'[u] = MarkSent(mk, Changed(mk, {}))
      BY <1>4 DEF SerializeFull
    <3>2. Names(mk) = Names(xforms[u])
      BY NamesFacts DEF MarkAllSent
    <3>3. Names(MarkSent(mk, Changed(mk, {}))) = Names(mk)
      BY NamesFacts
    <3> QED
      BY <3>1, <3>2, <3>3
  <2>2. PICK m : Write(m) /\ m.data = [u \in Enabled |-> SubjectData(xforms[u])]
    BY <1>4 DEF SerializeFull
  <2>3. DataWhole(m)
    BY <2>2, <1>0, NamesFacts DEF DataWhole, Enabled
  <2> QED
    BY <2>1, <2>2, <2>3, <1>0, <1>4, WriteWhole DEF Whole, receiverVars
<1>5. ASSUME UNCHANGED <<enabled, broken, receiverVars>>, NEW junk, SerializeUpdate(junk)
      PROVE  Whole'
  <2>1. \A u \in Subject : Names(xforms'[u]) = Names(xforms[u])
    BY <1>5, NamesFacts DEF SerializeUpdate
  <2>2. PICK m : Write(m) /\ m.data = [u \in {} |-> <<>>]
    BY <1>5 DEF SerializeUpdate
  <2>3. DataWhole(m)
    BY <2>2 DEF DataWhole
  <2> QED
    BY <2>1, <2>2, <2>3, <1>0, <1>5, WriteWhole DEF Whole, receiverVars
<1>6. CASE StreamFrame
  <2>1. UNCHANGED <<xforms, net>> /\ UNCHANGED receiverVars => Whole'
    BY DEF Whole, receiverVars
  <2> QED
    BY <2>1, <1>4, <1>5, <1>6 DEF StreamFrame
<1>7. CASE Redo
  BY <1>7 DEF Whole, Redo, senderVars, receiverVars
<1>8. CASE Parse
  <2>1. /\ DataWhole(Head(net)) /\ \A k \in 1 .. Len(net') : DataWhole(net'[k])
        /\ items' = Parsed(Head(net)) /\ UNCHANGED xforms
    BY <1>8, TakeWhole DEF Parse, senderVars
  <2>2. ASSUME NEW u \in DOMAIN items' PROVE Names(items'[u]) \in Skeleton
    <3> DEFINE list == IF u \in DOMAIN Head(net).data THEN Head(net).data[u] ELSE items[u]
    <3>1. u \in DOMAIN items \cup DOMAIN Head(net).data
      BY <2>1, <2>2 DEF Parsed
    <3>2. Names(list) \in Skeleton
      BY <3>1, <2>1 DEF Whole, DataWhole
    <3>3. items'[u] = IF u \in DOMAIN Head(net).update
                      THEN Updated(list, Head(net).update[u]) ELSE list
      BY <3>1, <2>1, ParsedFacts
    <3> HIDE DEF list
    <3>4. \A upd : Names(Updated(list, upd)) = Names(list)
      BY NamesFacts
    <3> QED
      BY <3>2, <3>3, <3>4
  <2> QED
    BY <2>1, <2>2 DEF Whole
<1>9. CASE Lose
  <2>1. \A k \in 1 .. Len(net') : DataWhole(net'[k])
    BY <1>9, TakeWhole DEF Lose
  <2> QED
    BY <2>1, <1>9 DEF Lose, Whole, senderVars
<1>10. CASE Restart
  <2>1. Len(net') = 0 /\ DOMAIN items' = {} /\ UNCHANGED xforms
    BY <1>10 DEF Restart, senderVars
  <2> QED
    BY <2>1 DEF Whole
<1>11. CASE UNCHANGED vars
  BY <1>11 DEF Whole, vars, senderVars, loopVars, receiverVars
<1> QED
  BY <1>1, <1>2, <1>3, <1>6, <1>7, <1>8, <1>9, <1>10, <1>11 DEF Next

\* Whatever is rebuilt, lost or delayed, a receiver never holds a skeleton its
\* sender did not have.
THEOREM WholeSkeletons == Spec => []SkeletonWhole
<1>1. Init => Typed /\ Whole
  BY TypedInit, WholeInit
<1>2. (Typed /\ Whole) /\ [Next]_vars => (Typed /\ Whole)'
  BY TypedNext, WholeNext
<1>3. Typed /\ Whole => SkeletonWhole
  BY DEF Whole
<1> QED
  BY <1>1, <1>2, <1>3, PTL DEF Spec

-----------------------------------------------------------------------------
(* The stream of updates implements the stream of whole poses.             *)

\* The packets in flight as PoseStream sees them.
Frames(s) == [k \in DOMAIN s |-> Framed(s[k])]

\* A sequence is the function of its elements.
LEMMA SeqElements == ASSUME NEW S, NEW s \in Seq(S) PROVE s = [k \in DOMAIN s |-> s[k]]
<1>1. s \in [1 .. Len(s) -> S]
  BY LenProperties
<1> QED
  BY <1>1

\* The queue's operations mean the same for the frames as for the packets.
LEMMA FramesFacts ==
    ASSUME NEW S, NEW s \in Seq(S)
    PROVE  /\ Frames(<<>>) = <<>>
           /\ \A e : Frames(Append(s, e)) = Append(Frames(s), Framed(e))
           /\ s # <<>> => /\ Frames(s) # <<>>
                          /\ Head(Frames(s)) = Framed(Head(s))
                          /\ Frames(Tail(s)) = Tail(Frames(s))
<1> DEFINE T == {Framed(s[k]) : k \in 1 .. Len(s)}
           fs == Frames(s)
<1>1. DOMAIN s = 1 .. Len(s) /\ Len(s) \in Nat
  OBVIOUS
<1>2. fs = [k \in 1 .. Len(s) |-> Framed(s[k])]
  BY <1>1 DEF Frames
<1>3. fs \in Seq(T) /\ Len(fs) = Len(s)
  BY <1>1, <1>2
<1>4. Frames(<<>>) = <<>>
  BY DEF Frames
<1> HIDE DEF fs, T
<1>5. ASSUME NEW e PROVE Frames(Append(s, e)) = Append(fs, Framed(e))
  <2>1. /\ Append(s, e) \in Seq(S \cup {e}) /\ Len(Append(s, e)) = Len(s) + 1
        /\ Append(s, e)[Len(s) + 1] = e
        /\ \A k \in 1 .. Len(s) : Append(s, e)[k] = s[k]
    BY AppendFacts
  <2>2. /\ Append(fs, Framed(e)) \in Seq(T \cup {Framed(e)})
        /\ Len(Append(fs, Framed(e))) = Len(s) + 1
        /\ Append(fs, Framed(e))[Len(s) + 1] = Framed(e)
        /\ \A k \in 1 .. Len(s) : Append(fs, Framed(e))[k] = fs[k]
    BY <1>3, AppendFacts
  <2> DEFINE one == Append(s, e)
             two == Append(fs, Framed(e))
  <2>3. DOMAIN one = 1 .. Len(s) + 1 /\ DOMAIN two = 1 .. Len(s) + 1
    BY <2>1, <2>2
  <2>4. two = [k \in DOMAIN two |-> two[k]]
    BY <2>2, SeqElements
  <2> HIDE DEF one, two
  <2>5. \A k \in 1 .. Len(s) + 1 : Framed(one[k]) = two[k]
    <3> TAKE k \in 1 .. Len(s) + 1
    <3>1. CASE k = Len(s) + 1
      BY <3>1, <2>1, <2>2 DEF one, two
    <3>2. CASE k \in 1 .. Len(s)
      BY <3>2, <1>2, <2>1, <2>2 DEF one, two
    <3> QED
      BY <1>1, <3>1, <3>2
  <2>6. Frames(one) = two
    BY <2>3, <2>4, <2>5 DEF Frames
  <2> QED
    BY <2>6 DEF one, two
<1>6. ASSUME s # <<>>
      PROVE  fs # <<>> /\ Head(fs) = Framed(Head(s)) /\ Frames(Tail(s)) = Tail(fs)
  <2>1. /\ Tail(s) \in Seq(S) /\ Len(s) \in Nat \ {0} /\ Len(Tail(s)) = Len(s) - 1
        /\ Head(s) = s[1] /\ \A k \in 1 .. Len(Tail(s)) : Tail(s)[k] = s[k + 1]
    BY <1>6, TailFacts
  <2>2. fs # <<>>
    BY <1>3, <2>1
  <2>3. /\ Tail(fs) \in Seq(T) /\ Len(Tail(fs)) = Len(s) - 1
        /\ Head(fs) = fs[1] /\ \A k \in 1 .. Len(Tail(fs)) : Tail(fs)[k] = fs[k + 1]
    BY <1>3, <2>2, TailFacts
  <2>4. Head(fs) = Framed(Head(s))
    BY <1>2, <2>1, <2>3
  <2> DEFINE one == Tail(s)
             two == Tail(fs)
  <2>5. DOMAIN one = 1 .. Len(s) - 1 /\ DOMAIN two = 1 .. Len(s) - 1
    BY <2>1, <2>3
  <2>6. two = [k \in DOMAIN two |-> two[k]]
    BY <2>3, SeqElements
  <2>7. \A k \in 1 .. Len(s) - 1 : one[k] = s[k + 1] /\ two[k] = fs[k + 1] /\ k + 1 \in 1 .. Len(s)
    BY <2>1, <2>3
  <2> HIDE DEF one, two
  <2>8. \A k \in 1 .. Len(s) - 1 : Framed(one[k]) = two[k]
    BY <1>2, <2>7
  <2>9. Frames(one) = two
    BY <2>5, <2>6, <2>8 DEF Frames
  <2> QED
    BY <2>2, <2>4, <2>9 DEF one, two
<1> QED
  BY <1>4, <1>5, <1>6 DEF fs

\* Marking values as sent moves nothing.
LEMMA MarkedPose ==
    ASSUME NEW ts
    PROVE  /\ \A ps : Pose(MarkSent(ts, ps)) = Pose(ts)
           /\ \A i \in DOMAIN ts : \A c, v :
                /\ DOMAIN Pose(Moved(ts, i, c, v)) = DOMAIN Pose(ts)
                /\ \A j \in DOMAIN Pose(ts) :
                      Pose(Moved(ts, i, c, v))[j].name = Pose(ts)[j].name
<1>1. \A ps : Pose(MarkSent(ts, ps)) = Pose(ts)
  BY DEF Pose, MarkSent
<1>2. ASSUME NEW i \in DOMAIN ts, NEW c, NEW v
      PROVE  /\ DOMAIN Pose(Moved(ts, i, c, v)) = DOMAIN Pose(ts)
             /\ \A j \in DOMAIN Pose(ts) :
                   Pose(Moved(ts, i, c, v))[j].name = Pose(ts)[j].name
  BY DEF Pose, Moved
<1> QED
  BY <1>1, <1>2

\* A packet handed to the connector is a frame sent, taken or dropped.
LEMMA WriteSends ==
    ASSUME Typed, NEW m, Write(m), NEW about \in SUBSET Subject, NEW described,
           Framed(m) = Poses!Frame(about, described),
           rebuilt' = rebuilt \ described,
           \A u \in Subject : Pose(xforms'[u]) = Pose(xforms[u]),
           UNCHANGED receiverVars
    PROVE  Poses!Send(about, described)
<1>1. PICK S : net \in Seq(S)
  BY DEF Typed, Sequential
<1>2. Frames(Append(net, m)) = Append(Frames(net), Framed(m))
  BY <1>1, FramesFacts
<1>3. \/ Frames(net)' = Append(Frames(net), Framed(m)) /\ linked' = TRUE
      \/ Frames(net)' = Frames(net) /\ linked' = FALSE
  <2>1. CASE net' = Append(net, m) /\ linked' = TRUE
    <3>1. Frames(net') = Frames(Append(net, m))
      BY <2>1
    <3> QED
      BY <3>1, <2>1, <1>2
  <2>2. CASE net' = net /\ linked' = FALSE
    BY <2>2
  <2> QED
    BY <2>1, <2>2 DEF Write
<1>4. [u \in Subject |-> Pose(xforms'[u])] = [u \in Subject |-> Pose(xforms[u])]
  OBVIOUS
<1>5. UNCHANGED <<missed, synced, items>>
  BY DEF receiverVars
<1> QED
  BY <1>3, <1>4, <1>5 DEF Poses!Send, Frames

\* A packet taken is a frame taken: what it shows is what its poses say, and a
\* subject it has nothing on is left as it was.
LEMMA ParseTakes == ASSUME Inv, Inv', Parse PROVE Poses!Take
<1> DEFINE fs == [k \in DOMAIN net |-> Framed(net[k])]
           kept(m) == IF m.linked /\ ~missed THEN synced ELSE {}
<1>1. PICK m : m = Head(net)
  OBVIOUS
<1>2. /\ net # <<>> /\ net' = Tail(net)
      /\ items' = Parsed(m)
      /\ synced' = (kept(m) \ m.rebuilt) \cup DOMAIN m.data
      /\ shown'.pose = m.pose
      /\ missed' = FALSE
      /\ UNCHANGED <<xforms, linked, rebuilt>>
  BY <1>1 DEF Parse, senderVars
<1>3. PICK S : net \in Seq(S)
  BY DEF Inv, Typed, Sequential
<1>4. fs # <<>> /\ Head(fs) = Framed(m) /\ fs' = Tail(fs)
  <2>1. Frames(net') = Frames(Tail(net))
    BY <1>2
  <2> QED
    BY <2>1, <1>1, <1>2, <1>3, FramesFacts DEF Frames
<1>5. PacketOK(m)
  <2>1. Len(net) \in Nat \ {0} /\ Head(net) = net[1]
    BY <1>2, <1>3, TailFacts
  <2>2. 1 \in 1 .. Len(net)
    BY <2>1
  <2> QED
    BY <1>1, <2>1, <2>2 DEF Inv, StreamInv, QueueSound
<1>6. DOMAIN m.data \subseteq DOMAIN m.pose /\ DOMAIN m.update = DOMAIN m.pose
  BY <1>5 DEF PacketOK
<1>7. Poses!InStep(Framed(m)) = synced'
  BY <1>2 DEF Poses!InStep, Framed
<1>8. ASSUME NEW u \in synced', u \in DOMAIN m.pose
      PROVE  Poses!Close(items'[u], m.pose[u])
  <2>1. Agrees(items'[u], shown'.base[u]) /\ Near(m.pose[u], shown'.base[u])
    BY <1>2, <1>8 DEF Inv, StreamInv, SyncedSound
  <2>2. /\ Names(items'[u]) = Names(m.pose[u])
        /\ \A i \in DOMAIN items'[u], c \in DeltaChannel :
              Dist(items'[u][i].value[c], m.pose[u][i].value[c]) <= Threshold + Ulp
    BY <2>1, AccuracyFacts
  <2>3. DOMAIN items'[u] = DOMAIN m.pose[u]
    BY <2>1 DEF Agrees, Near
  <2>4. \A i \in DOMAIN items'[u] : items'[u][i].name = m.pose[u][i].name
    BY <2>1, <2>3 DEF Agrees, Near
  <2> QED
    BY <2>2, <2>3, <2>4 DEF Poses!Close, Poses!Dist, Dist
<1>9. ASSUME NEW u \in synced', u \notin DOMAIN m.pose
      PROVE  u \in synced /\ items'[u] = items[u]
  <2>1. u \notin DOMAIN m.data /\ u \in kept(m)
    BY <1>2, <1>6, <1>9
  <2>2. u \in synced /\ u \in DOMAIN items
    BY <2>1 DEF Inv, StreamInv, SyncedSound
  <2> QED
    BY <2>1, <2>2, <1>2, <1>6, <1>9, ParsedFacts
<1> DEFINE shows == [u \in synced |-> items[u]]
<1>10. ASSUME NEW u \in synced'
       PROVE  IF u \in DOMAIN m.pose THEN Poses!Close(shows'[u], m.pose[u])
                                     ELSE u \in DOMAIN shows /\ shows'[u] = shows[u]
  BY <1>8, <1>9, <1>10
<1>11. DOMAIN shows' = synced' /\ DOMAIN shows = synced
  OBVIOUS
<1>12. [u \in Subject |-> Pose(xforms[u])]' = [u \in Subject |-> Pose(xforms[u])]
  BY <1>2
<1>13. Head(fs).pose = m.pose
  BY <1>4 DEF Framed
<1> HIDE DEF fs, shows
<1>14. /\ fs # <<>> /\ DOMAIN shows' = Poses!InStep(Head(fs))
       /\ \A u \in Poses!InStep(Head(fs)) :
             IF u \in DOMAIN Head(fs).pose THEN Poses!Close(shows'[u], Head(fs).pose[u])
                                           ELSE u \in DOMAIN shows /\ shows'[u] = shows[u]
       /\ fs' = Tail(fs) /\ missed' = FALSE
  BY <1>2, <1>4, <1>7, <1>10, <1>11, <1>13
<1> QED
  BY <1>2, <1>12, <1>14 DEF Poses!Take, fs, shows

\* serialize() sends a frame of the enabled subjects that describes them.
LEMMA SerializeFullSends ==
    ASSUME Typed, SerializeFull, UNCHANGED receiverVars
    PROVE  Poses!Send(Enabled, Enabled)
<1>1. PICK m :
        /\ Write(m) /\ m.pose = [u \in Enabled |-> Pose(xforms[u])]
        /\ DOMAIN m.data = Enabled /\ m.rebuilt = rebuilt \ Enabled /\ m.linked = linked
  BY DEF SerializeFull
<1>2. Enabled \subseteq Subject /\ rebuilt' = rebuilt \ Enabled
  BY DEF Enabled, SerializeFull
<1>3. Framed(m) = Poses!Frame(Enabled, Enabled)
  BY <1>1, <1>2 DEF Framed, Poses!Frame
<1>4. ASSUME NEW u \in Subject PROVE Pose(xforms'[u]) = Pose(xforms[u])
  <2> DEFINE mk == MarkAllSent(xforms[u])
  <2>1. xforms'[u] = xforms[u] \/ xforms'[u] = MarkSent(mk, Changed(mk, {}))
    BY <1>4 DEF SerializeFull
  <2>2. Pose(mk) = Pose(xforms[u]) /\ Pose(MarkSent(mk, Changed(mk, {}))) = Pose(mk)
    BY MarkedPose DEF MarkAllSent
  <2> QED
    BY <2>1, <2>2
<1> QED
  BY <1>1, <1>2, <1>3, <1>4, WriteSends

\* serializeUpdate() sends a frame that describes nobody.
LEMMA SerializeUpdateSends ==
    ASSUME Typed, NEW junk, SerializeUpdate(junk), UNCHANGED receiverVars
    PROVE  Poses!Send(Enabled, {})
<1>1. PICK m :
        /\ Write(m) /\ m.pose = [u \in Enabled |-> Pose(xforms[u])]
        /\ DOMAIN m.data = {} /\ m.rebuilt = rebuilt /\ m.linked = linked
  BY DEF SerializeUpdate
<1>2. Enabled \subseteq Subject /\ rebuilt' = rebuilt \ {} /\ rebuilt \ {} = rebuilt
  BY DEF Enabled, SerializeUpdate
<1>3. Framed(m) = Poses!Frame(Enabled, {})
  BY <1>1, <1>2 DEF Framed, Poses!Frame
<1>4. \A u \in Subject : Pose(xforms'[u]) = Pose(xforms[u])
  BY MarkedPose DEF SerializeUpdate
<1> QED
  BY <1>1, <1>2, <1>3, <1>4, WriteSends

\* Every step of the code is a step of the stream of poses, or none.
LEMMA StreamsNext == Inv /\ Inv' /\ [Next]_vars => [Poses!Next]_(Poses!streamVars)
<1> SUFFICES ASSUME Inv, Inv', [Next]_vars PROVE [Poses!Next]_(Poses!streamVars)
  OBVIOUS
<1>0. DOMAIN xforms = Subject
  BY DEF Inv, Typed, TypeOK
<1>1. ASSUME NEW u \in Subject, NEW i \in DOMAIN xforms[u], NEW c \in Channel,
             NEW v \in Value, Move(u, i, c, v)
      PROVE  Poses!Animate(u)
  <2>1. \A w \in Subject : xforms'[w] = IF w = u THEN Moved(xforms[u], i, c, v) ELSE xforms[w]
    BY <1>0, <1>1 DEF Move
  <2>2. /\ DOMAIN Pose(Moved(xforms[u], i, c, v)) = DOMAIN Pose(xforms[u])
        /\ \A j \in DOMAIN Pose(xforms[u]) :
              Pose(Moved(xforms[u], i, c, v))[j].name = Pose(xforms[u])[j].name
    BY MarkedPose
  <2>3. UNCHANGED <<rebuilt, net, linked, missed, synced, items>>
    BY <1>1 DEF Move, loopVars, receiverVars
  <2> HIDE DEF Moved, Pose
  <2> QED
    BY <2>1, <2>2, <2>3 DEF Poses!Animate
<1>2. ASSUME NEW u \in Subject, SetEnabled(u) \/ Upset(u)
      PROVE  UNCHANGED Poses!streamVars
  BY <1>2 DEF SetEnabled, Upset, loopVars, receiverVars, Poses!streamVars
<1>3. ASSUME NEW u \in Subject, NEW sk \in Skeleton, Rebuild(u, sk)
      PROVE  Poses!Reshape(u)
  <2>1. \A w \in Subject \ {u} : xforms'[w] = xforms[w]
    BY <1>0, <1>3 DEF Rebuild
  <2>2. rebuilt' = rebuilt \cup {u} /\ UNCHANGED <<net, linked, missed, synced, items>>
    BY <1>3 DEF Rebuild, loopVars, receiverVars
  <2> HIDE DEF Pose
  <2> QED
    BY <2>1, <2>2 DEF Poses!Reshape
<1>4. CASE StreamFrame
  <2>1. Typed /\ Enabled \in SUBSET Subject /\ UNCHANGED receiverVars
    BY <1>4 DEF StreamFrame, Inv, Enabled
  <2>2. CASE UNCHANGED <<xforms, net, linked, rebuilt>>
    BY <2>1, <2>2 DEF Poses!streamVars, receiverVars
  <2>3. CASE SerializeFull
    BY <2>1, <2>3, SerializeFullSends DEF Poses!Next
  <2>4. ASSUME NEW junk, SerializeUpdate(junk) PROVE Poses!Next
    BY <2>1, <2>4, SerializeUpdateSends DEF Poses!Next
  <2> QED
    BY <1>4, <2>2, <2>3, <2>4 DEF StreamFrame
<1>5. CASE Redo
  BY <1>5 DEF Redo, senderVars, receiverVars, Poses!streamVars
<1>6. CASE Parse
  BY <1>6, ParseTakes DEF Poses!Next
<1>7. CASE Lose
  <2>1. PICK S : net \in Seq(S)
    BY DEF Inv, Typed, Sequential
  <2>2. /\ net # <<>> /\ net' = Tail(net) /\ missed' = TRUE
        /\ UNCHANGED <<xforms, linked, rebuilt, synced, items>>
    BY <1>7 DEF Lose, senderVars
  <2>3. Frames(net) # <<>> /\ Frames(net)' = Tail(Frames(net))
    <3>1. Frames(net') = Frames(Tail(net))
      BY <2>2
    <3> QED
      BY <3>1, <2>1, <2>2, FramesFacts
  <2>4. Poses!Lose
    BY <2>2, <2>3 DEF Poses!Lose, Frames
  <2> QED
    BY <2>4 DEF Poses!Next
<1>8. CASE Restart
  <2>1. /\ net' = <<>> /\ missed' = TRUE /\ synced' = {}
        /\ UNCHANGED <<xforms, linked, rebuilt>>
    BY <1>8 DEF Restart, senderVars
  <2>2. Frames(net)' = <<>>
    BY <2>1 DEF Frames
  <2>3. [u \in synced |-> items[u]]' = [u \in {} |-> <<>>]
    BY <2>1
  <2>4. Poses!Restart
    BY <2>1, <2>2, <2>3 DEF Poses!Restart, Frames
  <2> QED
    BY <2>4 DEF Poses!Next
<1>9. CASE UNCHANGED vars
  BY <1>9 DEF vars, senderVars, loopVars, receiverVars, Poses!streamVars
<1> QED
  BY <1>1, <1>2, <1>3, <1>4, <1>5, <1>6, <1>7, <1>8, <1>9 DEF Next, Poses!Next

\* Delta coding cannot be told from sending every pose whole: for any subjects
\* and skeletons, any queue, and whatever is toggled, rebuilt, lost or restarted.
THEOREM StreamsPoses == Spec => WholePoses
<1>1. Init => Inv
  BY TypedInit, StreamInvInit DEF Inv
<1>2. Inv /\ [Next]_vars => Inv'
  BY TypedNext, StreamInvNext DEF Inv
<1>3. Init => Poses!Init
  <2> SUFFICES ASSUME Init PROVE Poses!Init
    OBVIOUS
  <2>1. net = <<>> /\ rebuilt = Subject /\ linked = TRUE /\ missed = TRUE /\ synced = {}
    BY DEF Init
  <2>2. Frames(net) = <<>>
    BY <2>1 DEF Frames
  <2>3. [u \in synced |-> items[u]] = [u \in {} |-> <<>>]
    BY <2>1
  <2> QED
    BY <2>1, <2>2, <2>3 DEF Poses!Init, Frames
<1> QED
  BY <1>1, <1>2, <1>3, StreamsNext, PTL DEF Spec, WholePoses, Poses!Spec

=============================================================================
