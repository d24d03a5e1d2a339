---------------------------- MODULE SubjectStream ----------------------------
(***************************************************************************)
(* The delta-coded subject stream of O3DS::SubjectList (src/o3ds/model.cpp).*)
(*                                                                         *)
(* A sender holds subjects, each a list of transforms.  A streaming loop   *)
(* calls serialize() (a full packet: the whole skeleton) once every        *)
(* KeyframePeriod frames and serializeUpdate() (only what moved more than  *)
(* the delta threshold since it was last sent, by transform index) in      *)
(* between.  Packets go through a connector that drops what its queue      *)
(* cannot take.  The receiver calls parse() on each packet.                *)
(*                                                                         *)
(* A pose component (a translation, a rotation, a scale) is one integer:   *)
(* the protocol only compares distances with the threshold, and narrows    *)
(* doubles to floats.  Parents, matrices and the coordinate conversion are *)
(* the business of Hierarchy, not of this module.                          *)
(***************************************************************************)
EXTENDS Integers, Sequences, FiniteSets

CONSTANTS
    Subject,         \* the uuids of the sender's subjects
    Joint,           \* the names of transforms
    Skeleton,        \* joint-name lists a subject may have, indexed from 0
    Value,           \* values of a pose component; 0 is a fresh transform's
    Narrow,          \* Narrow[v]: v after the cast from double to float
    Ulp,             \* bound on the error of that cast
    Threshold,       \* SubjectList::mDeltaThreshold
    Unset,           \* a rotation's uninitialised lastSentValue
    KeyframePeriod,  \* frames from one serialize() to the next
    Capacity,        \* packets the connector's send queue holds
    Animated,        \* the channels the application animates
    Events           \* what else happens: a subset of EventKind

Channel == {"translation", "rotation", "scale"}
DeltaChannel == {"translation", "rotation"}  \* the ones serializeUpdate sends

\* Subjects turned on and off, skeletons replaced while streaming, non-finite
\* poses, packets lost after the send queue, receivers started again.
EventKind == {"toggle", "rebuild", "upset", "lose", "restart"}

Dist(a, b) == IF a >= b THEN a - b ELSE b - a

ASSUME StreamAssumption ==
    /\ Value \subseteq Int /\ 0 \in Value
    /\ Unset \notin Value
    /\ Threshold \in Nat /\ Ulp \in Nat
    /\ Narrow \in [Value -> Value]
    /\ \A v \in Value : Dist(Narrow[v], v) <= Ulp
    /\ KeyframePeriod \in Nat \ {0} /\ Capacity \in Nat \ {0}
    /\ Animated \subseteq Channel
    /\ Events \subseteq EventKind
    /\ \A sk \in Skeleton : sk \in [0 .. (Cardinality(DOMAIN sk) - 1) -> Joint]

VARIABLES
    \* the sender's SubjectList
    enabled,    \* enabled[u]: Subject::mEnabled
    xforms,     \* xforms[u]: Subject::mTransforms, with each lastSentValue
    broken,     \* the subjects whose current pose holds a NaN or an infinity
    \* the streaming loop and the connector
    frame,      \* the loop's frame counter, modulo KeyframePeriod
    net,        \* the packets in flight, oldest first
    \* the receiver's SubjectList
    items,      \* items[u]: the transforms of the received subject u
    \* history: read by the properties only, never by an action's guard
    linked,     \* the last packet serialized was taken by the connector
    rebuilt,    \* subjects whose skeleton changed since their last full packet
    missed,     \* the receiver lost a packet since the last one it parsed
    synced,     \* subjects received in full, and every packet since then
    shown       \* the history the packet last parsed carried

senderVars   == <<enabled, xforms, broken>>
loopVars     == <<frame, net, linked>>
receiverVars == <<items, missed, synced, shown>>
vars == <<senderVars, loopVars, receiverVars, rebuilt>>

Enabled == {u \in Subject : enabled[u]}

\* A transform as its constructor leaves it: lastSentValue is zero for a
\* translation and never initialised for a rotation.
FreshTransform(name) ==
    [name  |-> name,
     value |-> [c \in Channel |-> 0],
     sent  |-> [c \in DeltaChannel |-> IF c = "translation" THEN 0 ELSE Unset]]

FreshList(sk) == [i \in DOMAIN sk |-> FreshTransform(sk[i])]

\* History carried by a packet: the poses it was made from, and the names and
\* lastSentValues the serializer left behind.
Pose(ts)     == [i \in DOMAIN ts |-> [name |-> ts[i].name, value |-> ts[i].value]]
Baseline(ts) == [i \in DOMAIN ts |-> [name |-> ts[i].name, sent |-> ts[i].sent]]

-----------------------------------------------------------------------------
(* What the serializers write.                                             *)

\* Subject::serialize / Transform::serialize: names and all three channels.
SubjectData(ts) ==
    [i \in DOMAIN ts |->
        [name |-> ts[i].name, value |-> [c \in Channel |-> Narrow[ts[i].value[c]]]]]

\* The components Subject::serializeUpdate puts in the packet: those further
\* than the threshold from the value last sent.  The comparison with an
\* uninitialised lastSentValue may go either way: junk says which ones pass.
Changed(ts, junk) ==
    {p \in (DOMAIN ts) \X DeltaChannel :
        LET last == ts[p[1]].sent[p[2]]
        IN  IF last = Unset THEN p[1] \in junk
                            ELSE Dist(ts[p[1]].value[p[2]], last) > Threshold}

SubjectUpdate(ts, junk) ==
    [p \in Changed(ts, junk) |-> Narrow[ts[p[1]].value[p[2]]]]

\* Mutant of MarkSent: an update marks what it left out as sent, too.
MarkSentEvery(ts, ps) ==
    [i \in DOMAIN ts |->
        [name  |-> ts[i].name,
         value |-> ts[i].value,
         sent  |-> [c \in DeltaChannel |-> ts[i].value[c]]]]

\* TransformTranslation::sent / TransformRotation::sent on the components in ps.
MarkSent(ts, ps) ==
    [i \in DOMAIN ts |->
        [name  |-> ts[i].name,
         value |-> ts[i].value,
         sent  |-> [c \in DeltaChannel |->
             IF <<i, c>> \in ps THEN ts[i].value[c] ELSE ts[i].sent[c]]]]

\* Transform::serialize marks every translation and rotation as sent.
MarkAllSent(ts) == MarkSent(ts, (DOMAIN ts) \X DeltaChannel)

\* Mutant of Updated: indices on the wire taken as counted from one.
UpdatedFromOne(ts, upd) ==
    [i \in DOMAIN ts |->
        [name  |-> ts[i].name,
         value |-> [c \in Channel |->
             IF <<i + 1, c>> \in DOMAIN upd THEN upd[<<i + 1, c>>] ELSE ts[i].value[c]]]]

\* Subject::parseUpdate: values by index; an index outside the list is skipped.
Updated(ts, upd) ==
    [i \in DOMAIN ts |->
        [name  |-> ts[i].name,
         value |-> [c \in Channel |->
             IF <<i, c>> \in DOMAIN upd THEN upd[<<i, c>>] ELSE ts[i].value[c]]]]

-----------------------------------------------------------------------------
(* The application at the sender.                                          *)

Moved(ts, i, c, v) ==
    [ts EXCEPT ![i] = [name  |-> ts[i].name,
                       value |-> [ts[i].value EXCEPT ![c] = v],
                       sent  |-> ts[i].sent]]

\* The application writes a component of a joint's pose.
Move(u, i, c, v) ==
    /\ c \in Animated
    /\ v # xforms[u][i].value[c]
    /\ xforms' = [xforms EXCEPT ![u] = Moved(xforms[u], i, c, v)]
    /\ UNCHANGED <<enabled, broken, loopVars, receiverVars, rebuilt>>

\* The application turns a subject on or off.
SetEnabled(u) ==
    /\ "toggle" \in Events
    /\ enabled' = [enabled EXCEPT ![u] = ~enabled[u]]
    /\ UNCHANGED <<xforms, broken, loopVars, receiverVars, rebuilt>>

\* TraverseSubject: the subject's transforms are cleared and built anew.  The
\* frame counter is left alone.
Rebuild(u, sk) ==
    /\ "rebuild" \in Events
    /\ xforms' = [xforms EXCEPT ![u] = FreshList(sk)]
    /\ rebuilt' = rebuilt \cup {u}
    /\ UNCHANGED <<enabled, broken, loopVars, receiverVars>>

\* The solver that feeds a subject starts or stops producing non-finite values.
Upset(u) ==
    /\ "upset" \in Events
    /\ broken' = IF u \in broken THEN broken \ {u} ELSE broken \cup {u}
    /\ UNCHANGED <<enabled, xforms, loopVars, receiverVars, rebuilt>>

-----------------------------------------------------------------------------
(* The streaming loop.                                                     *)

\* Mutant of Write: the connector queues without limit.
WriteUnbounded(packet) == net' = Append(net, packet) /\ linked' = TRUE

\* Connector::write without blocking: a full queue drops the packet, and the
\* caller is told nothing.
Write(packet) ==
    IF Len(net) < Capacity
    THEN net' = Append(net, packet) /\ linked' = TRUE
    ELSE net' = net /\ linked' = FALSE

\* Mutant of NextFrame: the counter is never set back to a full packet.
NextFrameStuck == frame' = IF frame + 1 = KeyframePeriod THEN frame ELSE frame + 1

NextFrame == frame' = (frame + 1) % KeyframePeriod

\* SubjectList::serialize.  Every enabled subject goes into both the full and
\* the update list, the latter after the former has marked its values as sent.
SerializeFull ==
    LET marked == [u \in Subject |->
                      IF u \in Enabled THEN MarkAllSent(xforms[u]) ELSE xforms[u]]
        packet == [data    |-> [u \in Enabled |-> SubjectData(xforms[u])],
                   update  |-> [u \in Enabled |-> SubjectUpdate(marked[u], {})],
                   linked  |-> linked,
                   rebuilt |-> rebuilt \ Enabled,
                   pose    |-> [u \in Enabled |-> Pose(xforms[u])],
                   base    |-> [u \in Subject |-> Baseline(xforms'[u])]]
    IN  /\ xforms' = [u \in Subject |->
                        IF u \in Enabled THEN MarkSent(marked[u], Changed(marked[u], {}))
                                         ELSE xforms[u]]
        /\ rebuilt' = rebuilt \ Enabled
        /\ Write(packet)

\* SubjectList::serializeUpdate.
SerializeUpdate(junk) ==
    LET packet == [data    |-> [u \in {} |-> <<>>],
                   update  |-> [u \in Enabled |-> SubjectUpdate(xforms[u], junk[u])],
                   linked  |-> linked,
                   rebuilt |-> rebuilt,
                   pose    |-> [u \in Enabled |-> Pose(xforms[u])],
                   base    |-> [u \in Subject |-> Baseline(xforms'[u])]]
    IN  /\ xforms' = [u \in Subject |->
                        IF u \in Enabled THEN MarkSent(xforms[u], Changed(xforms[u], junk[u]))
                                         ELSE xforms[u]]
        /\ UNCHANGED rebuilt
        /\ Write(packet)

\* The transforms of u whose rotation was never sent.
Unsent(u) == {i \in DOMAIN xforms[u] : xforms[u][i].sent["rotation"] = Unset}

\* One frame of the loop in apps/FbxStream.  When allFinite() fails nothing is
\* serialized or sent, yet the frame is counted.  That FbxStream ends when it cannot
\* parse the packet itself is left out: its list gets every packet, in order, so
\* that takes numbers past what floats hold, which Hierarchy has and Value has not.
StreamFrame ==
    /\ NextFrame
    /\ \/ /\ broken # {}
          /\ UNCHANGED <<xforms, net, linked, rebuilt>>
       \/ /\ broken = {}
          /\ frame = 0
          /\ SerializeFull
       \/ /\ broken = {}
          /\ frame # 0
          /\ \E junk \in [Subject -> SUBSET UNION {Unsent(u) : u \in Subject}] :
                /\ \A u \in Subject : junk[u] \subseteq Unsent(u)
                /\ SerializeUpdate(junk)
    /\ UNCHANGED <<enabled, broken, receiverVars>>

\* The end of the clip: the loop starts over with frame 0.
Redo ==
    /\ frame # 0
    /\ frame' = 0
    /\ UNCHANGED <<senderVars, net, linked, receiverVars, rebuilt>>

-----------------------------------------------------------------------------
(* The receiver.                                                           *)

\* Mutant of ParseSubject: the list is not cleared first.
ParseSubjectAppended(old, data) ==
    LET n == Cardinality(DOMAIN old)
    IN  [i \in 0 .. (n + Cardinality(DOMAIN data) - 1) |->
            IF i < n THEN old[i] ELSE data[i - n]]

\* Subject::parse: the list is cleared before the packet's transforms are added.
ParseSubject(old, data) == data

\* SubjectList::parse: full data first, adding the subjects it does not know,
\* then the updates of the subjects it knows; others are ignored.
Parsed(packet) ==
    LET full == [u \in DOMAIN items \cup DOMAIN packet.data |->
                    IF u \notin DOMAIN packet.data THEN items[u]
                    ELSE ParseSubject(IF u \in DOMAIN items THEN items[u] ELSE <<>>,
                                      packet.data[u])]
    IN  [u \in DOMAIN full |->
            IF u \in DOMAIN packet.update THEN Updated(full[u], packet.update[u])
                                          ELSE full[u]]

Parse ==
    /\ net # <<>>
    /\ LET packet == Head(net)
           kept   == IF packet.linked /\ ~missed THEN synced ELSE {}
       IN  /\ items'  = Parsed(packet)
           /\ synced' = (kept \ packet.rebuilt) \cup DOMAIN packet.data
           /\ shown'  = [pose |-> packet.pose, base |-> packet.base]
    /\ net' = Tail(net)
    /\ missed' = FALSE
    /\ UNCHANGED <<senderVars, frame, linked, rebuilt>>

\* A packet is lost on the way or fails the CRC: parse() leaves the list alone.
Lose ==
    /\ "lose" \in Events
    /\ net # <<>>
    /\ net' = Tail(net)
    /\ missed' = TRUE
    /\ UNCHANGED <<senderVars, frame, linked, rebuilt, items, synced, shown>>

\* The receiver starts again, with an empty list and a fresh subscription.
Restart ==
    /\ "restart" \in Events
    /\ DOMAIN items # {}
    /\ items' = [u \in {} |-> <<>>]
    /\ net' = <<>>
    /\ missed' = TRUE
    /\ synced' = {}
    /\ UNCHANGED <<senderVars, frame, linked, rebuilt, shown>>

-----------------------------------------------------------------------------
Init ==
    /\ enabled \in [Subject -> BOOLEAN]
    /\ \E sk \in [Subject -> Skeleton] : xforms = [u \in Subject |-> FreshList(sk[u])]
    /\ broken = {}
    /\ frame = 0
    /\ net = <<>>
    /\ items = [u \in {} |-> <<>>]
    /\ linked = TRUE
    /\ rebuilt = Subject
    /\ missed = TRUE
    /\ synced = {}
    /\ shown = [pose |-> [u \in {} |-> <<>>],
                base |-> [u \in Subject |-> Baseline(xforms[u])]]

Next ==
    \/ \E u \in Subject :
        \/ \E i \in DOMAIN xforms[u], c \in Channel, v \in Value : Move(u, i, c, v)
        \/ SetEnabled(u)
        \/ \E sk \in Skeleton : Rebuild(u, sk)
        \/ Upset(u)
    \/ StreamFrame
    \/ Redo
    \/ Parse
    \/ Lose
    \/ Restart

Spec == Init /\ [][Next]_vars

\* The loop ticks for ever, and a receiver that has a packet parses or loses it.
Fairness == WF_vars(StreamFrame) /\ WF_vars(Parse)

FairSpec == Spec /\ Fairness

-----------------------------------------------------------------------------
(* Properties.                                                             *)

Transform == [name  : Joint,
              value : [Channel -> Value],
              sent  : [DeltaChannel -> Value \cup {Unset}]]
Received  == [name : Joint, value : [Channel -> Value]]

\* A list of elements of T with the indices of some skeleton.
IsList(ts, T) == \E sk \in Skeleton : ts \in [DOMAIN sk -> T]

PacketTyped(m) ==
    /\ DOMAIN m.data \subseteq Subject
    /\ \A u \in DOMAIN m.data : IsList(m.data[u], Received)
    /\ \A u \in DOMAIN m.update : \A p \in DOMAIN m.update[u] : m.update[u][p] \in Value
    /\ m.linked \in BOOLEAN
    /\ m.rebuilt \subseteq Subject

TypeOK ==
    /\ enabled \in [Subject -> BOOLEAN]
    /\ DOMAIN xforms = Subject
    /\ \A u \in Subject : IsList(xforms[u], Transform)
    /\ broken \subseteq Subject
    /\ frame \in 0 .. (KeyframePeriod - 1)
    /\ Len(net) <= Capacity
    /\ \A k \in 1 .. Len(net) : PacketTyped(net[k])
    /\ DOMAIN items \subseteq Subject
    /\ \A u \in DOMAIN items : IsList(items[u], Received)
    /\ linked \in BOOLEAN /\ missed \in BOOLEAN
    /\ rebuilt \subseteq Subject /\ synced \subseteq Subject

Names(ts) == [i \in DOMAIN ts |-> ts[i].name]

\* A received subject always has one skeleton its sender gave it, whole: no
\* sequence of full packets, of updates addressed to another version of the
\* subject, of losses and restarts grows, shrinks or mixes a joint list.
SkeletonWhole == \A u \in DOMAIN items : Names(items[u]) \in Skeleton

\* A subject received in full, and every packet since then, is shown as the
\* sender posed it in the packet last parsed: the same joints, and every
\* translation and rotation within the delta threshold plus the error of one
\* cast to float.  Errors do not add up over updates, nor over the time a
\* subject was disabled, nor over packets the connector dropped.
ShownPoseAccurate ==
    \A u \in synced \cap DOMAIN shown.pose :
        /\ u \in DOMAIN items
        /\ Names(items[u]) = Names(shown.pose[u])
        /\ \A i \in DOMAIN items[u], c \in DeltaChannel :
              Dist(items[u][i].value[c], shown.pose[u][i].value[c]) <= Threshold + Ulp

\* A packet as PoseStream knows it: a frame of whole poses.
Framed(m) == [pose      |-> m.pose,
              described |-> DOMAIN m.data,
              unknown   |-> m.rebuilt,
              next      |-> m.linked]

\* The stream of updates promises what a stream of whole poses would, each to
\* within the delta threshold and the error of one cast: nothing shows that
\* values were left out, marked as sent, or addressed by index.
Poses == INSTANCE PoseStream WITH
    Channel   <- DeltaChannel,
    Tolerance <- Threshold + Ulp,
    pose      <- [u \in Subject |-> Pose(xforms[u])],
    unknown   <- rebuilt,
    frames    <- [k \in DOMAIN net |-> Framed(net[k])],
    whole     <- linked,
    lost      <- missed,
    shows     <- [u \in synced |-> items[u]]

WholePoses == Poses!Spec

\* Once packets stop being lost and frames stop being refused, a subject that
\* stays enabled is in step again and again: the periodic full packet repairs
\* whatever was lost or rebuilt before it, without any acknowledgement.
Repaired ==
    \A u \in Subject :
        <>[](enabled[u] /\ linked /\ ~missed /\ broken = {}) => []<>(u \in synced)

\* The schema's comment on SubjectData: a full packet is sent when the
\* subject's structure changes, so an update never describes another skeleton
\* than the one last sent in full.
UpdatesMatchSkeleton ==
    [][frame # 0 /\ broken = {} /\ StreamFrame => rebuilt \cap Enabled = {}]_vars

-----------------------------------------------------------------------------
(* Why a synced subject is accurate: the inductive invariant.  Each packet *)
(* takes a list that agrees with the baseline before it to one that agrees *)
(* with the baseline after it, unless the skeleton changed in between.     *)

\* The values last sent of a list's transforms are all set.
Known(ts) == \A i \in DOMAIN ts, c \in DeltaChannel : ts[i].sent[c] \in Value

\* The received list rs holds what the sender last sent of each component.
Agrees(rs, base) ==
    /\ DOMAIN rs = DOMAIN base
    /\ \A i \in DOMAIN base :
        /\ rs[i].name = base[i].name
        /\ \A c \in DeltaChannel :
            /\ base[i].sent[c] \in Value
            /\ rs[i].value[c] = Narrow[base[i].sent[c]]

\* The pose is within the threshold of what was last sent.
Near(pose, base) ==
    /\ DOMAIN pose = DOMAIN base
    /\ \A i \in DOMAIN base :
        /\ pose[i].name = base[i].name
        /\ \A c \in DeltaChannel :
            /\ base[i].sent[c] \in Value
            /\ pose[i].value[c] \in Value
            /\ Dist(pose[i].value[c], base[i].sent[c]) <= Threshold

\* The update upd takes lists that agree with b to lists that agree with b2.
Takes(upd, b, b2) ==
    /\ DOMAIN b2 = DOMAIN b
    /\ \A i \in DOMAIN b :
        /\ b2[i].name = b[i].name
        /\ \A c \in DeltaChannel :
            IF <<i, c>> \in DOMAIN upd
            THEN b2[i].sent[c] \in Value /\ upd[<<i, c>>] = Narrow[b2[i].sent[c]]
            ELSE b2[i].sent[c] = b[i].sent[c]

UpdateOf(m, u) == IF u \in DOMAIN m.update THEN m.update[u] ELSE [p \in {} |-> 0]

Continues(base, m) ==
    \A u \in Subject \ (m.rebuilt \cup DOMAIN m.data) :
        Takes(UpdateOf(m, u), base[u], m.base[u])

PacketOK(m) ==
    /\ DOMAIN m.data \subseteq DOMAIN m.update
    /\ DOMAIN m.update \subseteq Subject
    /\ DOMAIN m.pose = DOMAIN m.update
    /\ DOMAIN m.data \cap m.rebuilt = {}
    /\ \A u \in DOMAIN m.data : Agrees(Updated(m.data[u], m.update[u]), m.base[u])
    /\ \A u \in DOMAIN m.pose \ m.rebuilt : Near(m.pose[u], m.base[u])

\* Nothing was lost between the sender's list and the history h.
UpToDate(h) == \A u \in Subject \ rebuilt : Baseline(xforms[u]) = h[u]

\* The sender: what went into a full packet since it was built is set.
SentKnown == \A u \in Subject \ rebuilt : Known(xforms[u])

\* The queue: sound packets, each continuing the one before it unless one was
\* dropped in between, the last one leaving nothing behind.
QueueSound ==
    /\ \A k \in 1 .. Len(net) : PacketOK(net[k])
    /\ \A k \in 2 .. Len(net) : net[k].linked => Continues(net[k-1].base, net[k])
    /\ net # <<>> /\ linked => UpToDate(net[Len(net)].base)

\* Where the queue meets the receiver.
Joined ==
    /\ net # <<>> /\ net[1].linked /\ ~missed => Continues(shown.base, net[1])
    /\ net = <<>> /\ linked /\ ~missed => UpToDate(shown.base)

\* The receiver.
SyncedSound ==
    /\ synced \subseteq DOMAIN items
    /\ \A u \in synced : Agrees(items[u], shown.base[u])
    /\ \A u \in synced \cap DOMAIN shown.pose : Near(shown.pose[u], shown.base[u])

StreamInv == SentKnown /\ QueueSound /\ Joined /\ SyncedSound

=============================================================================
