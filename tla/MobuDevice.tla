----------------------------- MODULE MobuDevice -----------------------------
(***************************************************************************)
(* The MotionBuilder device and its layout: the protocol, what Start and   *)
(* Stop open and close, the subjects and the list that shows them, the     *)
(* scene file, and the frame a notification makes of the subjects.         *)
(***************************************************************************)
EXTENDS Naturals, Sequences, SequencesExt, FiniteSets

CONSTANTS
    Models,     \* models of the scene
    Period,     \* 100: frames until a full packet is due
    MinPacket,  \* 8: what parse takes for too short a packet
    MaxItems, MaxFrames  \* bounds; MaxFrames is beyond Period

ASSUME DeviceAssumption ==
    /\ Period \in Nat \ {0} /\ MinPacket \in Nat \ {0, 1}
    /\ MaxItems \in Nat /\ MaxFrames \in Nat /\ MaxFrames > Period + 1

\* The four kinds over nng, TCP as server and as client, and UDP.
Protocols == {"NNG", "TCP", "UDP"}

ItemNames == {"of the model", "edited"}
Subject   == [mReference : Models, mName : ItemNames]

VARIABLES
    mProtocol,
    mNetworkSocket, \* "none" is -1; "junk" was never written, and is not -1
    mTcpIp,         \* is its socket open?
    mServer,        \* is there one?
    Online,
    Items,          \* the model and the name of each subject
    shownItems,     \* mSourcesList: the subjects whose names the layout's rows show
    file,           \* the subjects in the stored scene
    editable,       \* are the layout's controls enabled?
    mFrameCounter,
    notified,       \* frames it was notified of that had where to go,
    written,        \* and those of them that were sent
    fulls           \* full packets it made

net     == <<mNetworkSocket, mTcpIp, mServer, Online>>
ui      == <<Items, shownItems, file, editable>>
frames  == <<mFrameCounter, notified, written, fulls>>
devVars == <<mProtocol, net, ui, frames>>

\* FBCreate leaves mNetworkSocket out.
DevInit ==
    /\ mProtocol = "NNG" /\ mNetworkSocket \in {"none", "junk"}
    /\ mTcpIp = FALSE /\ mServer = FALSE /\ Online = FALSE
    /\ Items = <<>> /\ shownItems = <<>> /\ file = <<>> /\ editable = TRUE
    /\ mFrameCounter = 0 /\ notified = 0 /\ written = 0 /\ fulls = 0

-----------------------------------------------------------------------------
(* Start and Stop, when the device is put online and offline.              *)

\* An nng server that does not start is deleted.
StartNng(tcp) ==
    /\ mServer' \in BOOLEAN /\ Online' = mServer' /\ mTcpIp' = tcp
    /\ UNCHANGED mNetworkSocket

\* CreateSocket closes the socket of before; then Connect or Listen may fail.
StartTcp ==
    /\ mTcpIp' \in BOOLEAN /\ Online' \in {FALSE, mTcpIp'} /\ mServer' = FALSE
    /\ UNCHANGED mNetworkSocket

\* The socket of before is never closed.
StartUdp(tcp) ==
    /\ mServer' = FALSE /\ mTcpIp' = tcp
    /\ \/ mNetworkSocket' = "udp" /\ Online' = TRUE
       \/ mNetworkSocket' = "none" /\ Online' = FALSE

\* tcp: is the TCP socket open before?
StartAny(tcp) ==
    /\ \/ mProtocol = "NNG" /\ StartNng(tcp)
       \/ mProtocol = "TCP" /\ StartTcp
       \/ mProtocol = "UDP" /\ StartUdp(tcp)
    /\ UNCHANGED <<mProtocol, ui, frames>>

Start == ~Online /\ StartAny(mTcpIp)

\* Is the TCP socket open after Stop?  The test mNetworkSocket > 0 decides whether
\* it is closed; whether what was never written is positive is open.
StillOpen ==
    CASE mNetworkSocket = "udp"  -> {FALSE}
      [] mNetworkSocket = "none" -> {mTcpIp}
      [] mNetworkSocket = "junk" -> {FALSE, mTcpIp}

Stop ==
    /\ Online /\ Online' = FALSE /\ mServer' = FALSE /\ mTcpIp' \in StillOpen
    /\ UNCHANGED <<mProtocol, mNetworkSocket, ui, frames>>

\* Stop, and Start.
Reset == \E tcp \in StillOpen : StartAny(tcp)

-----------------------------------------------------------------------------
(* The layout.                                                             *)

\* The protocol and the buttons that add and delete follow the device at the next
\* idle event: until then it may be online and they are enabled.
EventUIIdle ==
    /\ editable' = ~Online
    /\ UNCHANGED <<mProtocol, net, Items, shownItems, file, frames>>

EventEditProtocol ==
    /\ editable /\ mProtocol' \in Protocols
    /\ UNCHANGED <<net, ui, frames>>

PopulateSubjectList == shownItems' = Items'

\* A subject with a new uuid for a model, though it may have one already, named
\* after the model or its namespace.
AddItem(items, m) == Append(items, [mReference |-> m, mName |-> "of the model"])

\* The selected models, and once more those of them that are cameras.
EventAdd(selected) ==
    /\ editable /\ Len(Items) + Len(selected) <= MaxItems
    /\ Items' = FoldLeft(AddItem, Items, selected) /\ PopulateSubjectList
    /\ UNCHANGED <<mProtocol, net, file, editable, frames>>

\* MUTANT: the rows are not drawn again.
EventDelUnseen(id) ==
    /\ editable /\ id \in DOMAIN shownItems /\ id \in DOMAIN Items
    /\ Items' = RemoveAt(Items, id)
    /\ UNCHANGED <<mProtocol, net, shownItems, file, editable, frames>>

\* The row that is selected is the index of the subject that goes.
EventDel(id) ==
    /\ editable /\ id \in DOMAIN shownItems /\ id \in DOMAIN Items
    /\ Items' = RemoveAt(Items, id) /\ PopulateSubjectList
    /\ UNCHANGED <<mProtocol, net, file, editable, frames>>

\* A subject may be renamed while the device is online.  The row is taken out and
\* put in again; that there is a subject at its place is not asked.
EventEditSubject(id) ==
    /\ id \in DOMAIN shownItems /\ id \in DOMAIN Items
    /\ \E name \in ItemNames :
          /\ Items' = [Items EXCEPT ![id].mName = name]
          /\ shownItems' = InsertAt(RemoveAt(shownItems, id), id, Items'[id])
    /\ UNCHANGED <<mProtocol, net, file, editable, frames>>

UIConfigure ==
    /\ Items # shownItems /\ Items' = Items /\ PopulateSubjectList
    /\ UNCHANGED <<mProtocol, net, file, editable, frames>>

FbxStore ==
    /\ file # Items /\ file' = Items
    /\ UNCHANGED <<mProtocol, net, Items, shownItems, editable, frames>>

\* The subjects of the file are added, with new uuids, to those that are there;
\* models that are gone from the scene are left out.
Retrieved(items, stored, gone) ==
    LET Retrieve(list, s) == IF s.mReference \in gone THEN list ELSE Append(list, s)
    IN  FoldLeft(Retrieve, items, stored)

\* The protocol is the file's.  The layout is not told, nor is a device that is
\* online.
FbxRetrieve(gone) ==
    /\ file # <<>> /\ Len(Items) + Len(file) <= MaxItems
    /\ Items' = Retrieved(Items, file, gone)
    /\ mProtocol' \in Protocols
    /\ UNCHANGED <<net, shownItems, file, editable, frames>>

-----------------------------------------------------------------------------
(* DeviceIONotify.                                                         *)

\* serialize and serializeUpdate return true where they made a packet, and the
\* device takes that for the packet's length.
SerializedSize == 1

\* ItemsTest.parse
Parses(size) == size >= MinPacket

\* Is there where to send to?
Sends ==
    \/ mProtocol = "NNG" /\ mServer
    \/ mProtocol = "TCP" /\ mTcpIp
    \/ mProtocol = "UDP" /\ mNetworkSocket = "udp"

\* A frame whose poses are finite; another is refused before all this.
DeviceIONotify ==
    /\ Online /\ mNetworkSocket # "none" /\ mFrameCounter < MaxFrames /\ notified < MaxFrames
    /\ fulls' = (IF mFrameCounter = 0 THEN fulls + 1 ELSE fulls)
    /\ notified' = (IF Sends THEN notified + 1 ELSE notified)
    /\ IF ~Parses(SerializedSize)
       THEN mFrameCounter' = mFrameCounter + 1 /\ UNCHANGED written
       ELSE /\ mFrameCounter' = (IF mFrameCounter + 1 > Period THEN 0 ELSE mFrameCounter + 1)
            /\ written' = (IF Sends THEN written + 1 ELSE written)
    /\ UNCHANGED <<mProtocol, net, ui>>

DevNext ==
    \/ Start \/ Stop \/ Reset \/ EventUIIdle \/ EventEditProtocol \/ UIConfigure \/ FbxStore
    \/ \E selected \in SeqOf(Models, MaxItems) \ {<<>>} : EventAdd(selected)
    \/ \E id \in 1 .. MaxItems : EventDel(id) \/ EventEditSubject(id)
    \/ \E gone \in SUBSET Models : FbxRetrieve(gone)
    \/ DeviceIONotify

DevSpec == DevInit /\ [][DevNext]_devVars

-----------------------------------------------------------------------------
\* mFrameCounter is set back behind the test of the packet, which no packet
\* passes: one full packet is made in the device's life.
DevTypeOK ==
    /\ mProtocol \in Protocols /\ mNetworkSocket \in {"none", "junk", "udp"}
    /\ {mTcpIp, mServer, Online, editable} \subseteq BOOLEAN
    /\ {Items, shownItems, file} \subseteq Seq(Subject)
    /\ Len(Items) <= MaxItems /\ notified <= MaxFrames
    /\ written <= notified /\ fulls <= 1

\* The layout's rows index Items without a test (EventEditSubject and
\* EventEditJoints): whatever was added, deleted and retrieved, a row that can
\* be selected is a subject, and it is the one whose name it shows.
RowsAreSubjects == IsPrefix(shownItems, Items)

\* "Called per frame to send data" (device.cpp, DeviceIONotify): each frame that
\* has where to go is sent.
CalledPerFrameToSend == written = notified

=============================================================================
