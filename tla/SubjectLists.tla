----------------------------- MODULE SubjectLists -----------------------------
(***************************************************************************)
(* Subject lists: subjects of three kinds, found by their uuids, what full *)
(* packets and updates say of each kind, and what the time a list shows    *)
(* belongs to.  The poses are left to SubjectStream: a subject has one     *)
(* transform, of which the components its matrix is made of are told.      *)
(***************************************************************************)
EXTENDS Naturals, Sequences, SequencesExt, FiniteSets

CONSTANTS
    SubjectUuids,
    MaxSubjects,  \* bounds: subjects in the sender's list,
    MaxEdits,     \* changes of it,
    MaxSends      \* and packets

ASSUME ListAssumption == MaxSubjects \in Nat /\ MaxEdits \in Nat /\ MaxSends \in Nat

Kinds   == {"PerformerSubject", "RigidbodySubject", "CameraSubject"}
InOrder == <<"PerformerSubject", "RigidbodySubject", "CameraSubject">>

NoPacket == [made |-> 0]

VARIABLES
    out,        \* the sender's list
    edits,      \* how often it was changed
    sends,      \* packets it made, which is the time of the last one
    wire,       \* the packet under way
    mItems,     \* the receiver's list
    mTime, mTimeEnvelope, mContextSet,  \* and what else it takes from packets
    told        \* the kinds full packets gave a uuid since the list was cleared

listOut  == <<out, edits, sends>>
listIn   == <<mItems, mTime, mTimeEnvelope, mContextSet, told>>
listVars == <<listOut, wire, listIn>>

\* The components of a transform in the order they are multiplied, where TMatrix
\* is the next of its matrices.  There may be more of these than the order takes.
Stack(order, matrices) == [mTransformOrder |-> order, mMatrices |-> matrices]

NoStack   == Stack(<<>>, <<>>)
MobuStack ==
    Stack(<<"TTranslation", "TMatrix", "TRotation", "TMatrix", "TScale">>, <<"pre", "post">>)
FbxStack  ==
    Stack(<<"TTranslation", "TMatrix", "TRotation", "TMatrix", "TScale", "TMatrix">>,
          <<"m1", "m2", "scalePivotInv">>)
Offset    == Stack(<<"TTranslation", "TRotation", "TScale">>, <<"offset">>)
Stacks    == {MobuStack, FbxStack, Offset}

\* A subject is what full packets say of it, its transform, and what updates say,
\* the lens of a camera.
NewSubject(u, kind) ==
    [mUuid |-> u, kind |-> kind, mEnabled |-> TRUE, transform |-> NoStack, lens |-> 0]

ListsInit ==
    /\ out = <<>> /\ edits = 0 /\ sends = 0 /\ wire = NoPacket
    /\ mItems = <<>> /\ mTime = 0 /\ mTimeEnvelope = 0 /\ mContextSet = FALSE
    /\ told = [u \in SubjectUuids |-> {}]

-----------------------------------------------------------------------------
(* Finding subjects.                                                       *)

\* The first subject with that uuid, if it is of that kind: one of another kind
\* hides those behind it.  0 is nullptr.
FindByUuid(items, u, kind) ==
    LET i == SelectInSeq(items, LAMBDA s : s.mUuid = u)
    IN  IF i # 0 /\ items[i].kind = kind THEN i ELSE 0

FindOrAdd(items, u, kind) ==
    LET i == FindByUuid(items, u, kind)
    IN  IF i # 0 THEN [items |-> items, at |-> i]
        ELSE [items |-> Append(items, NewSubject(u, kind)), at |-> Len(items) + 1]

-----------------------------------------------------------------------------
(* The sender.                                                             *)

Edit(items) ==
    /\ edits < MaxEdits /\ edits' = edits + 1 /\ out' = items /\ Len(items) <= MaxSubjects
    /\ UNCHANGED <<sends, wire, listIn>>

AddSubject(u, kind) == Edit(FindOrAdd(out, u, kind).items)

\* The transforms are built anew.
Restack(i, stack) == out[i].transform # stack /\ Edit([out EXCEPT ![i].transform = stack])

SetLens(i) == out[i].kind = "CameraSubject" /\ Edit([out EXCEPT ![i].lens = 1 - @])
Toggle(i)  == Edit([out EXCEPT ![i].mEnabled = ~@])

\* The program starts again and builds its list anew.
StartAgain == out # <<>> /\ Edit(<<>>)

\* The factors of a transform's own matrix.
Local(t) ==
    [k \in DOMAIN t.mTransformOrder |->
        IF t.mTransformOrder[k] = "TMatrix"
        THEN t.mMatrices[Cardinality({j \in 1 .. k : t.mTransformOrder[j] = "TMatrix"})]
        ELSE t.mTransformOrder[k]]

Component ==
    [TTranslation |-> "Component_Translation", TRotation |-> "Component_Rotation",
     TScale |-> "Component_Scale", TMatrix |-> "Component_Matrix"]

\* All matrices are sent: "This allows embedding other data (offsets)".
SerializeTransform(t) ==
    [components |-> [k \in DOMAIN t.mTransformOrder |-> Component[t.mTransformOrder[k]]],
     matrices   |-> t.mMatrices]

\* The components are put behind those the transform has, which has just been
\* made.
ParseTransform(data) ==
    LET type(id) == CHOOSE c \in DOMAIN Component : Component[c] = id
    IN  Stack([k \in DOMAIN data.components |-> type(data.components[k])], data.matrices)

\* The enabled subjects of a kind, in the list's order.
OfKind(kind) ==
    LET Take(taken, s) == IF s.mEnabled /\ s.kind = kind THEN Append(taken, s) ELSE taken
    IN  FoldLeft(Take, <<>>, out)

\* local is not in the packet: what the sender's matrix is, for the property.
SubjectData(s)   ==
    [mUuid |-> s.mUuid, kind |-> s.kind, nodes |-> SerializeTransform(s.transform),
     local |-> Local(s.transform)]
SubjectUpdate(s) == [mUuid |-> s.mUuid, kind |-> s.kind, lens |-> s.lens]

Each(Op(_), seq) == [i \in DOMAIN seq |-> Op(seq[i])]

\* Updates go in every packet, behind the definitions of their kind.
CreateRoot(full, context, envelope) ==
    [made    |-> sends + 1,
     context |-> context,
     envelope |-> IF envelope THEN sends + 1 ELSE 0,
     data    |-> [k \in Kinds |-> IF full THEN Each(SubjectData, OfKind(k)) ELSE <<>>],
     updates |-> [k \in Kinds |-> Each(SubjectUpdate, OfKind(k))]]

\* serialize and serializeUpdate.  A sender fills in the envelope and a valid
\* context, or does not.
Serialize(full) ==
    /\ wire = NoPacket /\ sends < MaxSends /\ sends' = sends + 1
    /\ \E context, envelope \in BOOLEAN : wire' = CreateRoot(full, context, envelope)
    /\ UNCHANGED <<out, edits, listIn>>

-----------------------------------------------------------------------------
(* The receiver.                                                           *)

ParseDefinition(items, s) ==
    LET found == FindOrAdd(items, s.mUuid, s.kind)
    IN  [found.items EXCEPT ![found.at].transform = ParseTransform(s.nodes)]

\* MUTANT: an update adds a subject it does not find.
ParseUpdateAdds(items, s) ==
    LET found == FindOrAdd(items, s.mUuid, s.kind)
    IN  [found.items EXCEPT ![found.at].lens = s.lens]

\* Only a camera's updates hold more than a pose.
ParseUpdate(items, s) ==
    LET i == FindByUuid(items, s.mUuid, s.kind)
    IN  IF i = 0 THEN items ELSE [items EXCEPT ![i].lens = s.lens]

\* MUTANT: the updates of a kind come before its definitions.
ParseKindBackwards(items, kind) ==
    FoldLeft(ParseDefinition, FoldLeft(ParseUpdate, items, wire.updates[kind]), wire.data[kind])

ParseKind(items, kind) ==
    FoldLeft(ParseUpdate, FoldLeft(ParseDefinition, items, wire.data[kind]), wire.updates[kind])

Defined == UNION {{<<s.mUuid, k>> : s \in ToSet(wire.data[k])} : k \in Kinds}

\* The context of the first packet is taken as it is; against one the list has,
\* that of a packet must be valid, or the packet is refused.
ContextRefused == mContextSet /\ ~wire.context

\* MUTANT: the envelope of before is left where a packet has none.
ParseTimeKept ==
    /\ mTime' = wire.made
    /\ mTimeEnvelope' = IF wire.envelope # 0 THEN wire.envelope ELSE mTimeEnvelope

ParseTime ==
    /\ mTime' = wire.made
    /\ mTimeEnvelope' = wire.envelope

\* parse: the time is taken over before the context is looked at.
ParseList(clearInactive) ==
    /\ wire # NoPacket /\ wire' = NoPacket
    /\ ParseTime
    /\ mContextSet' = (mContextSet \/ wire.context)
    /\ IF ContextRefused THEN UNCHANGED <<mItems, told>>
       ELSE /\ mItems' = FoldLeft(ParseKind, IF clearInactive THEN <<>> ELSE mItems, InOrder)
            /\ told' = [u \in SubjectUuids |->
                          {k \in Kinds : \/ k \in told[u] /\ ~clearInactive
                                         \/ <<u, k>> \in Defined}]
    /\ UNCHANGED listOut

LosePacket == wire # NoPacket /\ wire' = NoPacket /\ UNCHANGED <<listOut, listIn>>

ListsNext ==
    \/ \E u \in SubjectUuids, k \in Kinds : AddSubject(u, k)
    \/ \E i \in DOMAIN out : SetLens(i) \/ Toggle(i)
    \/ \E i \in DOMAIN out, stack \in Stacks : Restack(i, stack)
    \/ StartAgain
    \/ \E full \in BOOLEAN : Serialize(full)
    \/ \E clear \in BOOLEAN : ParseList(clear)
    \/ LosePacket

ListsSpec == ListsInit /\ [][ListsNext]_listVars

-----------------------------------------------------------------------------
Subjects ==
    [mUuid : SubjectUuids, kind : Kinds, mEnabled : BOOLEAN, transform : Stacks \cup {NoStack},
     lens : 0 .. 1]

ListPackets ==
    [made : 1 .. MaxSends, context : BOOLEAN, envelope : 0 .. MaxSends,
     data : [Kinds -> Seq({SubjectData(s) : s \in Subjects})],
     updates : [Kinds -> Seq({SubjectUpdate(s) : s \in Subjects})]]

ListsTypeOK ==
    /\ out \in Seq(Subjects) /\ Len(out) <= MaxSubjects /\ mItems \in Seq(Subjects)
    /\ edits \in 0 .. MaxEdits /\ sends \in 0 .. MaxSends /\ wire \in ListPackets \cup {NoPacket}
    /\ mContextSet \in BOOLEAN /\ told \in [SubjectUuids -> SUBSET Kinds]

\* "A stale envelope beside a fresh mTime is worse than none" (SubjectList::parse):
\* after any series of packets with and without one, refused ones included, the
\* envelope is that of the packet the time is from, or there is none.
EnvelopeOfItsTime == mTimeEnvelope \in {0, mTime}

At(items, u) == {i \in DOMAIN items : items[i].mUuid = u}

\* A uuid that came under one kind is listed once, however often it is stated,
\* through losses, senders that start again and subjects that are disabled.
ListedOnce == \A u \in SubjectUuids : Cardinality(told[u]) <= 1 =>
    Cardinality(At(mItems, u)) = Cardinality(told[u])

\* What entries say of the uuid u at last.
LastOf(entries, u) ==
    {entries[j] : j \in {k \in DOMAIN entries :
        entries[k].mUuid = u /\ \A l \in DOMAIN entries : entries[l].mUuid = u => l <= k}}

\* A packet that is taken in leaves each subject as the last entry the packet has
\* for it says, where the uuid had one kind: cameras with the lens of the update,
\* whatever the packet defines, and every transform with a matrix that is the
\* product of the sender's factors, in the sender's order, whatever it was made
\* of before and whatever else is among its matrices.
ShownAsSaid ==
    [][wire # NoPacket /\ wire' = NoPacket /\ mTime' # mTime /\ ~ContextRefused =>
         \A i \in DOMAIN mItems' :
            LET s == mItems'[i]
            IN  Cardinality(told'[s.mUuid]) = 1 =>
                  /\ \A x \in LastOf(wire.data[s.kind], s.mUuid) : Local(s.transform) = x.local
                  /\ \A x \in LastOf(wire.updates[s.kind], s.mUuid) : s.lens = x.lens]_listVars

=============================================================================
