----------------------------- MODULE UdpFragment -----------------------------
(***************************************************************************)
(* Frames over UDP.  UdpFragmenter cuts a frame into datagrams that carry  *)
(* the frame's id, their place and the frame's length; UdpCombiner and     *)
(* UdpMapper (src/o3ds/udp_fragment.cpp) put frames together again.  The   *)
(* sender is the UDP branch of the MotionBuilder device, the receiver the  *)
(* data callback of the Unreal plugin's UDP socket.                        *)
(*                                                                         *)
(* Byte p of the n-th frame sent is <<n, p>>: what matters of a byte is    *)
(* where it came from.  The 16-byte header is the datagram's fields.       *)
(***************************************************************************)
EXTENDS Integers, Sequences, FiniteSets

CONSTANTS
    Size,          \* lengths of frames, in bytes
    FragmentSize,  \* bytes of a frame in one datagram
    IdModulus,     \* frame ids are counted modulo this: 2^32 in the code
    MaxFrames,     \* bound on the frames sent
    Events         \* what the network and the sender do: a subset of EventKind

\* Datagrams lost, received in another order or more than once; the sending
\* program started again, which counts frame ids from zero again.
EventKind == {"lose", "reorder", "duplicate", "restart"}

ASSUME UdpAssumption ==
    /\ Size \subseteq Nat \ {0}
    /\ FragmentSize \in Nat \ {0}
    /\ IdModulus \in Nat \ {0}
    /\ MaxFrames \in Nat
    /\ Events \subseteq EventKind

VARIABLES
    idSeq,   \* the sender's mIdSeq
    net,     \* the datagrams in flight, oldest first
    items,   \* UdpMapper::items: the combiner of each frame id it holds
    out,     \* the frame last handed to OnData
    \* history: read by the properties only
    sent,    \* the id and the length of every frame sent, in order
    unused   \* the <<id, size, seq>> received since that frame was handed over

vars == <<idSeq, net, items, out, sent, unused>>

Id == 0 .. (IdModulus - 1)

Bytes(n) == [p \in 0 .. (sent[n].size - 1) |-> <<n, p>>]
Garbage == <<0, 0>>  \* a byte malloc() left uninitialised
NoFrame == [id |-> -1, bytes |-> [p \in {} |-> Garbage]]

-----------------------------------------------------------------------------
(* The sender.                                                             *)

\* UdpFragmenter::mFrames, and frames in UdpCombiner::addFragment.
Frames(size) == (size + FragmentSize - 1) \div FragmentSize

\* Mutant of Fragment: the last fragment is as long as the others.
FragmentFull(n, id, size, seq) ==
    [id   |-> id,
     seq  |-> seq,
     size |-> size,
     data |-> [k \in 0 .. (FragmentSize - 1) |-> <<n, seq * FragmentSize + k>>]]

\* UdpFragmenter::makeFragment on the n-th frame: the last fragment is shorter.
Fragment(n, id, size, seq) ==
    LET length == IF seq = Frames(size) - 1 THEN size - seq * FragmentSize
                                            ELSE FragmentSize
    IN  [id   |-> id,
         seq  |-> seq,
         size |-> size,
         data |-> [k \in 0 .. (length - 1) |-> <<n, seq * FragmentSize + k>>]]

\* One frame of the device: a new id, and every fragment sent in turn.
Send(size) ==
    /\ Len(sent) < MaxFrames
    /\ idSeq' = (idSeq + 1) % IdModulus
    /\ sent' = Append(sent, [id |-> idSeq', size |-> size])
    /\ net' = net \o [k \in 1 .. Frames(size) |->
                        Fragment(Len(sent) + 1, idSeq', size, k - 1)]
    /\ UNCHANGED <<items, out, unused>>

\* The sending program is started again.
Restart ==
    /\ "restart" \in Events
    /\ idSeq # 0
    /\ idSeq' = 0
    /\ UNCHANGED <<net, items, out, sent, unused>>

-----------------------------------------------------------------------------
(* The receiver.                                                           *)

\* A combiner no fragment was accepted by; its frame counts as complete.
EmptyCombiner == [size |-> 0, found |-> [k \in {} |-> FALSE], bytes |-> [p \in {} |-> Garbage]]

\* The first fragment of a frame that is accepted fixes the frame's length.
Opened(c, size) ==
    IF c.size # 0 THEN c
    ELSE [size  |-> size,
          found |-> [k \in 0 .. (Frames(size) - 1) |-> FALSE],
          bytes |-> [p \in 0 .. (size - 1) |-> Garbage]]

\* memcpy(mBuffer + seq * fragSize, ...), also where it would write past the end.
Copy(bytes, at, data) ==
    [p \in DOMAIN bytes \cup {at + k : k \in DOMAIN data} |->
        IF p - at \in DOMAIN data THEN data[p - at] ELSE bytes[p]]

\* Mutant of Accept: a frame of another length under the same id is not refused.
AcceptAnySize(c, d) ==
    LET opened == Opened(c, d.size)
    IN  IF d.seq >= Frames(d.size) \/ d.seq * (FragmentSize - 1) > d.size
        THEN c
        ELSE [size  |-> opened.size,
              found |-> [k \in DOMAIN opened.found |-> opened.found[k] \/ k = d.seq],
              bytes |-> IF d.seq # Frames(d.size) - 1 /\ Cardinality(DOMAIN d.data) # FragmentSize
                        THEN opened.bytes
                        ELSE Copy(opened.bytes, d.seq * FragmentSize, d.data)]

\* Mutant of Accept: the last fragment, too, has to be a full one.
AcceptFullOnly(c, d) ==
    LET opened == Opened(c, d.size)
    IN  IF d.seq >= Frames(d.size) \/ opened.size # d.size \/ Cardinality(DOMAIN d.data) # FragmentSize
        THEN c
        ELSE [size  |-> opened.size,
              found |-> [k \in DOMAIN opened.found |-> opened.found[k] \/ k = d.seq],
              bytes |-> Copy(opened.bytes, d.seq * FragmentSize, d.data)]

\* UdpCombiner::addFragment.  The fragment counts as found before its own length
\* is looked at.
Accept(c, d) ==
    LET opened == Opened(c, d.size)
    IN  IF \/ d.seq >= Frames(d.size)
           \/ d.seq * (FragmentSize - 1) > d.size
           \/ opened.size # d.size
        THEN c
        ELSE [size  |-> opened.size,
              found |-> [k \in DOMAIN opened.found |-> opened.found[k] \/ k = d.seq],
              bytes |-> IF d.seq # Frames(d.size) - 1 /\ Cardinality(DOMAIN d.data) # FragmentSize
                        THEN opened.bytes
                        ELSE Copy(opened.bytes, d.seq * FragmentSize, d.data)]

\* UdpMapper::addFragment: the frame id gets a combiner even if it refuses d.
Added(d) ==
    [id \in DOMAIN items \cup {d.id} |->
        IF id # d.id THEN items[id]
        ELSE Accept(IF id \in DOMAIN items THEN items[id] ELSE EmptyCombiner, d)]

\* Mutant of Complete: the first fragment found decides.
CompleteAny(c) == \E k \in DOMAIN c.found : c.found[k]

\* UdpCombiner::isComplete.
Complete(c) == \A k \in DOMAIN c.found : c.found[k]

KeepOver(held, id) == [j \in {j \in DOMAIN held : j > id} |-> held[j]]

\* Mutant of GetFrame: a frame waits for those with a lower id.
GetFrameInTurn(held, pieces) ==
    \/ /\ \E id \in DOMAIN held : ~Complete(held[id]) /\ \A j \in DOMAIN held : id <= j
       /\ items' = held
       /\ UNCHANGED out
       /\ unused' = pieces
    \/ \E id \in DOMAIN held :
       /\ Complete(held[id])
       /\ \A j \in DOMAIN held : id <= j
       /\ items' = KeepOver(held, id)
       /\ out' = [id |-> id, bytes |-> held[id].bytes]
       /\ unused' = {piece \in pieces : piece[1] # id}

\* Mutant of GetFrame: only the ids below the frame's are erased.
GetFrameKept(held, pieces) ==
    \/ /\ \A id \in DOMAIN held : ~Complete(held[id])
       /\ items' = held
       /\ UNCHANGED out
       /\ unused' = pieces
    \/ \E id \in DOMAIN held :
       /\ Complete(held[id])
       /\ \A j \in DOMAIN held : j < id => ~Complete(held[j])
       /\ items' = KeepOver(held, id - 1)
       /\ out' = [id |-> id, bytes |-> held[id].bytes]
       /\ unused' = {piece \in pieces : piece[1] # id}

\* UdpMapper::getFrame hands over the complete frame with the lowest id.  It
\* erases the ids up to i.first while i refers to one of the elements erased:
\* once that one is gone, the ids after it are compared with freed memory,
\* which may hold its id still or any other number.
GetFrame(held, pieces) ==
    \/ /\ \A id \in DOMAIN held : ~Complete(held[id])
       /\ items' = held
       /\ UNCHANGED out
       /\ unused' = pieces
    \/ \E id \in DOMAIN held, freed \in Id :
       /\ Complete(held[id])
       /\ \A j \in DOMAIN held : j < id => ~Complete(held[j])
       /\ freed >= id
       /\ items' = KeepOver(held, freed)
       /\ out' = [id |-> id, bytes |-> held[id].bytes]
       /\ unused' = {piece \in pieces : piece[1] # id}

\* The data callback: one fragment added, one frame asked for.  The datagram is
\* the oldest in flight or, when the network reorders, any; it may come again.
Receive(k, again) ==
    /\ k # 1 => "reorder" \in Events
    /\ again => "duplicate" \in Events
    /\ net' = IF again THEN net ELSE SubSeq(net, 1, k - 1) \o SubSeq(net, k + 1, Len(net))
    /\ GetFrame(Added(net[k]), unused \cup {<<net[k].id, net[k].size, net[k].seq>>})
    /\ UNCHANGED <<idSeq, sent>>

Lose(k) ==
    /\ "lose" \in Events
    /\ net' = SubSeq(net, 1, k - 1) \o SubSeq(net, k + 1, Len(net))
    /\ UNCHANGED <<idSeq, items, out, sent, unused>>

-----------------------------------------------------------------------------
Init ==
    /\ idSeq = 0
    /\ net = <<>>
    /\ items = [id \in {} |-> EmptyCombiner]
    /\ out = NoFrame
    /\ sent = <<>>
    /\ unused = {}

Next ==
    \/ \E size \in Size : Send(size)
    \/ Restart
    \/ \E k \in 1 .. Len(net) :
        \/ \E again \in BOOLEAN : Receive(k, again)
        \/ Lose(k)

Spec == Init /\ [][Next]_vars

-----------------------------------------------------------------------------
(* Properties.                                                             *)

CombinerTyped(c) ==
    /\ c.size \in Size
    /\ c.found \in [0 .. (Frames(c.size) - 1) -> BOOLEAN]
    /\ DOMAIN c.bytes = 0 .. (c.size - 1)

TypeOK ==
    /\ idSeq \in Id
    /\ sent \in Seq([id : Id, size : Size]) /\ Len(sent) <= MaxFrames
    /\ \A k \in 1 .. Len(net) :
        /\ net[k].id \in Id /\ net[k].size \in Size
        /\ net[k].seq \in 0 .. (Frames(net[k].size) - 1)
    /\ DOMAIN items \subseteq Id
    /\ \A id \in DOMAIN items : CombinerTyped(items[id])
    /\ out = NoFrame \/ out.id \in Id
    /\ unused \subseteq Id \X Size \X Nat

\* Every byte of a frame handed over is the byte of the same place in a frame
\* sent under its id with its length: no byte is missing, misplaced or left over
\* from malloc.  It is one frame, whole, as long as only one was sent under the
\* id; ids are used again after a restart of the sender, and when they wrap.
RightBytes ==
    out # NoFrame =>
        LET frames == {n \in 1 .. Len(sent) : sent[n].id = out.id
                                              /\ DOMAIN out.bytes = DOMAIN Bytes(n)}
        IN  /\ frames # {}
            /\ \A p \in DOMAIN out.bytes : \E n \in frames : out.bytes[p] = <<n, p>>

\* One frame is asked for with every datagram, and that is enough: no complete
\* frame is left in the mapper until another datagram comes.
NoneLeftComplete == \A id \in DOMAIN items : ~Complete(items[id])

\* What a combiner has found was received since its id was last handed over: a
\* frame is handed over again only if each of its datagrams came again.
NothingUsedTwice ==
    \A id \in DOMAIN items : \A seq \in DOMAIN items[id].found :
        items[id].found[seq] => <<id, items[id].size, seq>> \in unused

\* Over a network that keeps datagrams in order the transport is the channel the
\* code above it expects; -1 stands for anything but a frame that was sent.
Handed ==
    IF out = NoFrame THEN 0
    ELSE IF \E n \in 1 .. Len(sent) : out = [id |-> sent[n].id, bytes |-> Bytes(n)]
    THEN CHOOSE n \in 1 .. Len(sent) : out = [id |-> sent[n].id, bytes |-> Bytes(n)]
    ELSE -1

Channel == INSTANCE FrameChannel WITH sent <- Len(sent), got <- Handed

InOrder == Channel!Spec

\* Over such a network, with ids used once, a frame all of whose datagrams were
\* received was handed over: neither the frames that lost some nor getFrame's
\* reading of freed memory cost another frame.
ReceivedIsHandedOver ==
    \A n \in 1 .. Len(sent) : \E seq \in 0 .. (Frames(sent[n].size) - 1) :
        <<sent[n].id, sent[n].size, seq>> \notin unused

-----------------------------------------------------------------------------
(* The inductive invariant: where the bytes of datagrams and combiners come *)
(* from.                                                                   *)

\* The datagrams made of a sequence of frames.
Datagrams(fs) ==
    UNION {{Fragment(n, fs[n].id, fs[n].size, seq) : seq \in 0 .. (Frames(fs[n].size) - 1)}
           : n \in 1 .. Len(fs)}

\* The byte at place p of a frame sent with this id and length.
Genuine(id, size, p, byte) ==
    \E n \in 1 .. Len(sent) : sent[n] = [id |-> id, size |-> size] /\ byte = <<n, p>>

\* A byte of a fragment that was found is genuine.
CombinerSound(id, c) ==
    \A p \in DOMAIN c.bytes :
        c.found[p \div FragmentSize] => Genuine(id, c.size, p, c.bytes[p])

PiecesInv ==
    /\ net \in Seq(Datagrams(sent))
    /\ \A id \in DOMAIN items : CombinerSound(id, items[id])

UdpInv == TypeOK /\ PiecesInv /\ RightBytes /\ NoneLeftComplete /\ NothingUsedTwice

-----------------------------------------------------------------------------
(* What the inductive invariant has on top of that over a network that only *)
(* loses datagrams, while ids are used once.                               *)

Earlier(d, e) == d.id < e.id \/ (d.id = e.id /\ d.seq < e.seq)

\* Frames have their numbers as ids; datagrams come in the order they were sent
\* in, after all that were received and after the frame handed over.
InTurn ==
    /\ idSeq = Len(sent)
    /\ \A n \in 1 .. Len(sent) : sent[n].id = n
    /\ \A j, k \in 1 .. Len(net) : j < k => Earlier(net[j], net[k])
    /\ \A k \in 1 .. Len(net) :
        /\ \A piece \in unused : piece[1] <= net[k].id
        /\ out # NoFrame => out.id < net[k].id

\* A combiner is that of a frame after the one handed over, and what it has
\* found was sent before all that is in flight.
HeldInTurn ==
    \A id \in DOMAIN items :
        /\ id \in 1 .. Len(sent) /\ items[id].size = sent[id].size
        /\ out # NoFrame => out.id < id
        /\ items[id].bytes = [p \in DOMAIN items[id].bytes |-> items[id].bytes[p]]
        /\ \A k \in 1 .. Len(net) :
            /\ id <= net[k].id
            /\ id = net[k].id =>
                \A seq \in DOMAIN items[id].found : items[id].found[seq] => seq < net[k].seq

\* The frame handed over is one that was sent, whole.
OutWhole ==
    out # NoFrame =>
        out.id \in 1 .. Len(sent) /\ out = [id |-> out.id, bytes |-> Bytes(out.id)]

\* What was received and not handed over is found in a combiner, as long as the
\* frame may still be handed over.
PiecesHeld ==
    \A piece \in unused :
        /\ piece[1] \in 1 .. Len(sent) /\ piece[2] = sent[piece[1]].size
        /\ piece[3] \in 0 .. (Frames(piece[2]) - 1)
        /\ IF piece[1] \in DOMAIN items THEN items[piece[1]].found[piece[3]]
                                        ELSE out # NoFrame /\ piece[1] <= out.id

OrderedInv == InTurn /\ HeldInTurn /\ OutWhole /\ PiecesHeld /\ ReceivedIsHandedOver

=============================================================================
