-------------------------- MODULE UdpFragmentProofs --------------------------
(***************************************************************************)
(* Proofs about UdpFragment, for every set of frame lengths, every fragment *)
(* size and modulus of ids: first over a network that does whatever it     *)
(* likes, then over one that only loses datagrams, where the transport is  *)
(* shown to implement FrameChannel.                                        *)
(***************************************************************************)
EXTENDS UdpFragment, TLAPS, SequenceTheorems, FiniteSetTheorems

-----------------------------------------------------------------------------
(* Fragments cover a frame.                                                *)

\* What integer division returns.
LEMMA DivFacts ==
    ASSUME NEW a \in Nat, NEW b \in Nat \ {0}
    PROVE  /\ a \div b \in Nat
           /\ (a \div b) * b <= a
           /\ a < (a \div b) * b + b
OBVIOUS

\* A factor that is not negative keeps the order.
LEMMA TimesMonotone ==
    ASSUME NEW q \in Int, NEW r \in Int, NEW b \in Nat, q <= r
    PROVE  q * b <= r * b
<1>1. (r - q) * b >= 0
  BY SMT
<1>2. (r - q) * b = r * b - q * b
  BY SMT
<1> QED
  BY <1>1, <1>2

\* There is one fragment at least, the last one is not empty, and all of them
\* together are long enough.
LEMMA FramesFacts ==
    ASSUME NEW size \in Nat \ {0}
    PROVE  /\ Frames(size) \in Nat \ {0}
           /\ (Frames(size) - 1) * FragmentSize < size
           /\ size <= Frames(size) * FragmentSize
BY DivFacts, UdpAssumption, SMTT(60) DEF Frames, UdpAssumption

\* Every byte is in one of the fragments.
LEMMA PlaceFacts ==
    ASSUME NEW size \in Nat \ {0}, NEW p \in 0 .. (size - 1)
    PROVE  p \div FragmentSize \in 0 .. (Frames(size) - 1)
<1> DEFINE q == p \div FragmentSize
<1>1. FragmentSize \in Nat \ {0} /\ p \in Nat
  BY UdpAssumption DEF UdpAssumption
<1>2. q \in Nat /\ q * FragmentSize <= p
  BY <1>1, DivFacts
<1>3. Frames(size) \in Nat /\ size <= Frames(size) * FragmentSize
  BY FramesFacts
<1>4. ASSUME Frames(size) <= q PROVE FALSE
  <2>1. Frames(size) * FragmentSize <= q * FragmentSize
    BY <1>1, <1>2, <1>3, <1>4, TimesMonotone
  <2> QED
    BY <2>1, <1>1, <1>2, <1>3
<1> QED
  BY <1>2, <1>3, <1>4

\* The place of a fragment and its length.
Length(size, seq) ==
    IF seq = Frames(size) - 1 THEN size - seq * FragmentSize ELSE FragmentSize

\* A fragment ends within the frame, and where the next one begins.
LEMMA LengthFacts ==
    ASSUME NEW size \in Nat \ {0}, NEW seq \in 0 .. (Frames(size) - 1)
    PROVE  /\ Length(size, seq) \in Nat \ {0}
           /\ seq * FragmentSize \in Nat
           /\ seq * FragmentSize + Length(size, seq) <= size
           /\ \A p \in 0 .. (size - 1) :
                 p \div FragmentSize = seq =>
                    p - seq * FragmentSize \in 0 .. (Length(size, seq) - 1)
<1>1. FragmentSize \in Nat \ {0} /\ Frames(size) \in Nat \ {0} /\ seq \in Nat
  BY UdpAssumption, FramesFacts DEF UdpAssumption
<1>2. (Frames(size) - 1) * FragmentSize < size
  BY FramesFacts
<1>3. seq * FragmentSize \in Nat
  BY <1>1
<1>4. CASE seq = Frames(size) - 1
  <2>1. Length(size, seq) = size - seq * FragmentSize
    BY <1>4 DEF Length
  <2>2. \A p \in 0 .. (size - 1) : (p \div FragmentSize) * FragmentSize <= p
    BY <1>1, DivFacts
  <2> QED
    BY <1>2, <1>3, <1>4, <2>1, <2>2
<1>5. CASE seq # Frames(size) - 1
  <2>1. Length(size, seq) = FragmentSize
    BY <1>5 DEF Length
  <2>2. seq + 1 <= Frames(size) - 1
    BY <1>1, <1>5
  <2>3. (seq + 1) * FragmentSize <= (Frames(size) - 1) * FragmentSize
    BY <2>2, <1>1, TimesMonotone
  <2>4. (seq + 1) * FragmentSize = seq * FragmentSize + FragmentSize
    BY <1>1
  <2>5. seq * FragmentSize + FragmentSize <= size
    BY <2>3, <2>4, <1>1, <1>2, <1>3
  <2>6. \A p \in 0 .. (size - 1) :
            /\ (p \div FragmentSize) * FragmentSize <= p
            /\ p < (p \div FragmentSize) * FragmentSize + FragmentSize
    BY <1>1, DivFacts
  <2> QED
    BY <1>1, <1>3, <2>1, <2>5, <2>6
<1> QED
  BY <1>4, <1>5

-----------------------------------------------------------------------------
(* One datagram.                                                           *)

\* A datagram in flight is a fragment of a frame that was sent.
LEMMA DatagramFacts ==
    ASSUME TypeOK, NEW d \in Datagrams(sent)
    PROVE  \E n \in 1 .. Len(sent) :
              /\ sent[n] = [id |-> d.id, size |-> d.size]
              /\ d.id \in Id
              /\ d.size \in Size
              /\ d.seq \in 0 .. (Frames(d.size) - 1)
              /\ d.data = [k \in 0 .. (Length(d.size, d.seq) - 1) |->
                              <<n, d.seq * FragmentSize + k>>]
<1>0. PICK n \in 1 .. Len(sent) : \E seq \in 0 .. (Frames(sent[n].size) - 1) :
          d = Fragment(n, sent[n].id, sent[n].size, seq)
  BY DEF Datagrams
<1>1. PICK seq \in 0 .. (Frames(sent[n].size) - 1) :
          d = Fragment(n, sent[n].id, sent[n].size, seq)
  BY <1>0
<1>2. sent[n] \in [id : Id, size : Size]
  BY ElementOfSeq DEF TypeOK
<1>3. sent[n] = [id |-> sent[n].id, size |-> sent[n].size]
  BY <1>2
<1>4. /\ d.id = sent[n].id
      /\ d.seq = seq
      /\ d.size = sent[n].size
      /\ d.data = [k \in 0 .. (Length(d.size, d.seq) - 1) |->
                      <<n, d.seq * FragmentSize + k>>]
  BY <1>1 DEF Fragment, Length
<1> QED
  BY <1>2, <1>3, <1>4

\* A fragment that is not a frame's last has full length, as addFragment asks.
LEMMA FullFragment ==
    ASSUME NEW size \in Nat \ {0}, NEW seq \in 0 .. (Frames(size) - 1), NEW data,
           DOMAIN data = 0 .. (Length(size, seq) - 1)
    PROVE  ~(seq # Frames(size) - 1 /\ Cardinality(DOMAIN data) # FragmentSize)
<1>1. FragmentSize \in Nat \ {0}
  BY UdpAssumption DEF UdpAssumption
<1>2. Cardinality(0 .. (FragmentSize - 1)) = FragmentSize
  BY <1>1, FS_Interval
<1> QED
  BY <1>2 DEF Length

\* addFragment's guards pass for the first fragment of a frame.
LEMMA PlaceAccepted ==
    ASSUME NEW size \in Nat \ {0}, NEW seq \in 0 .. (Frames(size) - 1)
    PROVE  ~(seq >= Frames(size)) /\ ~(seq * (FragmentSize - 1) > size)
<1>1. FragmentSize \in Nat \ {0} /\ Frames(size) \in Nat \ {0} /\ seq \in Nat
  BY UdpAssumption, FramesFacts DEF UdpAssumption
<1>2. seq * (FragmentSize - 1) = seq * FragmentSize - seq
  BY <1>1
<1>3. seq * FragmentSize \in Nat /\ seq * FragmentSize <= size
  BY LengthFacts
<1> QED
  BY <1>1, <1>2, <1>3

\* What addFragment makes of a combiner: of the same frame length it gets the
\* fragment's bytes in their place, and no other bytes and no other fragment.
LEMMA AcceptSound ==
    ASSUME TypeOK, NEW d \in Datagrams(sent), NEW c,
           c = EmptyCombiner \/ (CombinerTyped(c) /\ CombinerSound(d.id, c))
    PROVE  /\ CombinerTyped(Accept(c, d))
           /\ CombinerSound(d.id, Accept(c, d))
           /\ \A seq \in DOMAIN Accept(c, d).found : Accept(c, d).found[seq] =>
                 \/ CombinerTyped(c) /\ Accept(c, d).size = c.size
                        /\ seq \in DOMAIN c.found /\ c.found[seq]
                 \/ Accept(c, d).size = d.size /\ seq = d.seq
<1> DEFINE at == d.seq * FragmentSize
           o == Opened(c, d.size)
<1>1. PICK n \in 1 .. Len(sent) :
          /\ sent[n] = [id |-> d.id, size |-> d.size]
          /\ d.size \in Size
          /\ d.seq \in 0 .. (Frames(d.size) - 1)
          /\ d.data = [k \in 0 .. (Length(d.size, d.seq) - 1) |-> <<n, at + k>>]
  BY DatagramFacts
<1>2. d.size \in Nat \ {0}
  BY <1>1, UdpAssumption DEF UdpAssumption
<1>3. CASE c # EmptyCombiner /\ c.size # d.size
  <2>1. CombinerTyped(c) /\ CombinerSound(d.id, c)
    BY <1>3
  <2>2. c.size # 0
    BY <2>1, UdpAssumption DEF CombinerTyped, UdpAssumption
  <2>3. o = c
    BY <2>2 DEF Opened
  <2>4. Accept(c, d) = c
    BY <2>3, <1>3 DEF Accept
  <2> QED
    BY <2>1, <2>4
<1>4. CASE c = EmptyCombiner \/ c.size = d.size
  <2>1. /\ CombinerTyped(o) /\ o.size = d.size
        /\ CombinerSound(d.id, o)
        /\ \A seq \in DOMAIN o.found : o.found[seq] =>
              CombinerTyped(c) /\ c.size = d.size /\ seq \in DOMAIN c.found /\ c.found[seq]
    <3>1. CASE c = EmptyCombiner
      <4>1. o = [size  |-> d.size,
                 found |-> [k \in 0 .. (Frames(d.size) - 1) |-> FALSE],
                 bytes |-> [p \in 0 .. (d.size - 1) |-> Garbage]]
        BY <3>1 DEF Opened, EmptyCombiner
      <4>2. CombinerTyped(o)
        BY <4>1, <1>1 DEF CombinerTyped
      <4>3. \A p \in DOMAIN o.bytes : p \div FragmentSize \in DOMAIN o.found
        BY <4>1, <1>2, PlaceFacts
      <4> QED
        BY <4>1, <4>2, <4>3 DEF CombinerSound
    <3>2. CASE c # EmptyCombiner
      <4>1. o = c
        BY <3>2, <1>2, <1>4 DEF Opened
      <4> QED
        BY <4>1, <3>2, <1>4
    <3> QED
      BY <3>1, <3>2
  <2>2. Accept(c, d) = [size  |-> o.size,
                        found |-> [k \in DOMAIN o.found |-> o.found[k] \/ k = d.seq],
                        bytes |-> Copy(o.bytes, at, d.data)]
    <3>1. ~(d.seq >= Frames(d.size)) /\ ~(d.seq * (FragmentSize - 1) > d.size)
      BY <1>1, <1>2, PlaceAccepted
    <3>2. DOMAIN d.data = 0 .. (Length(d.size, d.seq) - 1)
      BY <1>1
    <3>3. ~(d.seq # Frames(d.size) - 1 /\ Cardinality(DOMAIN d.data) # FragmentSize)
      BY <3>2, <1>1, <1>2, FullFragment
    <3> QED
      BY <3>1, <3>3, <2>1 DEF Accept
  <2>8. /\ Accept(c, d).size = o.size
        /\ Accept(c, d).bytes = Copy(o.bytes, at, d.data)
        /\ DOMAIN Accept(c, d).found = DOMAIN o.found
    <3> HIDE DEF o, at
    <3> QED
      BY <2>2
  <2>9. \A k \in DOMAIN o.found : Accept(c, d).found[k] => o.found[k] \/ k = d.seq
    <3> HIDE DEF o, at
    <3> DEFINE f == [k \in DOMAIN o.found |-> o.found[k] \/ k = d.seq]
    <3>1. Accept(c, d).found = f
      BY <2>2
    <3>2. \A k \in DOMAIN o.found : f[k] => o.found[k] \/ k = d.seq
      OBVIOUS
    <3> HIDE DEF f
    <3> QED
      BY <3>1, <3>2
  <2>3. /\ DOMAIN Copy(o.bytes, at, d.data) = 0 .. (d.size - 1)
        /\ \A p \in 0 .. (d.size - 1) : Copy(o.bytes, at, d.data)[p] =
              IF p - at \in DOMAIN d.data THEN d.data[p - at] ELSE o.bytes[p]
    <3>1. DOMAIN o.bytes = 0 .. (d.size - 1)
      BY <2>1 DEF CombinerTyped
    <3>2. /\ at \in Nat
          /\ Length(d.size, d.seq) \in Nat
          /\ at + Length(d.size, d.seq) <= d.size
      BY <1>1, <1>2, LengthFacts
    <3>3. DOMAIN d.data = 0 .. (Length(d.size, d.seq) - 1)
      BY <1>1
    <3>4. \A k \in DOMAIN d.data : at + k \in 0 .. (d.size - 1)
      BY <3>2, <3>3, <1>2
    <3>5. DOMAIN o.bytes \cup {at + k : k \in DOMAIN d.data} = 0 .. (d.size - 1)
      BY <3>1, <3>4
    <3> QED
      BY <3>5 DEF Copy
  <2>4. CombinerTyped(Accept(c, d)) /\ Accept(c, d).size = d.size
    BY <2>1, <2>2, <2>3 DEF CombinerTyped
  <2>5. ASSUME NEW p \in DOMAIN Accept(c, d).bytes,
               Accept(c, d).found[p \div FragmentSize]
        PROVE  Genuine(d.id, d.size, p, Accept(c, d).bytes[p])
    <3>1. p \in 0 .. (d.size - 1)
      BY <2>3, <2>8
    <3>2. p \div FragmentSize \in 0 .. (Frames(d.size) - 1)
      BY <3>1, <1>2, PlaceFacts
    <3>3. p \div FragmentSize \in DOMAIN o.found /\ p \in DOMAIN o.bytes
      BY <3>1, <3>2, <2>1 DEF CombinerTyped
    <3>4. o.found[p \div FragmentSize] \/ p \div FragmentSize = d.seq
      BY <3>3, <2>9, <2>5
    <3>5. Accept(c, d).bytes[p] =
              IF p - at \in DOMAIN d.data THEN d.data[p - at] ELSE o.bytes[p]
      BY <3>1, <2>3, <2>8
    <3>6. CASE p - at \in DOMAIN d.data
      <4>1. p - at \in Int /\ at \in Nat /\ p \in Nat
        BY <3>1, <1>1, <1>2, LengthFacts
      <4>2. d.data[p - at] = <<n, at + (p - at)>>
        BY <1>1, <3>6
      <4>3. at + (p - at) = p
        BY <4>1
      <4> QED
        BY <3>5, <3>6, <4>2, <4>3, <1>1 DEF Genuine
    <3>7. CASE p - at \notin DOMAIN d.data
      <4>1. p \div FragmentSize # d.seq
        BY <3>1, <3>7, <1>1, <1>2, LengthFacts
      <4> QED
        BY <4>1, <3>3, <3>4, <3>5, <3>7, <2>1 DEF CombinerSound
    <3> QED
      BY <3>6, <3>7
  <2>6. CombinerSound(d.id, Accept(c, d))
    BY <2>4, <2>5 DEF CombinerSound
  <2>7. \A seq \in DOMAIN Accept(c, d).found : Accept(c, d).found[seq] =>
            seq \in DOMAIN o.found /\ (o.found[seq] \/ seq = d.seq)
    BY <2>8, <2>9
  <2> QED
    BY <2>1, <2>4, <2>6, <2>7
<1> QED
  BY <1>3, <1>4

-----------------------------------------------------------------------------
(* The steps.                                                              *)

\* Nothing has been sent.
LEMMA InitSound == Init => UdpInv
<1> SUFFICES ASSUME Init PROVE UdpInv
  OBVIOUS
<1> USE UdpAssumption DEF UdpAssumption
<1>1. TypeOK
  BY EmptySeq DEF Init, TypeOK, Id
<1>2. PiecesInv
  BY EmptySeq DEF Init, PiecesInv
<1>3. RightBytes /\ NoneLeftComplete /\ NothingUsedTwice
  BY DEF Init, RightBytes, NoneLeftComplete, NothingUsedTwice
<1> QED
  BY <1>1, <1>2, <1>3 DEF UdpInv

\* Taking a datagram out of those in flight leaves only such.
LEMMA Removed ==
    ASSUME NEW S, NEW s \in Seq(S), NEW k \in 1 .. Len(s)
    PROVE  SubSeq(s, 1, k - 1) \o SubSeq(s, k + 1, Len(s)) \in Seq(S)
<1>1. \A i \in 1 .. Len(s) : s[i] \in S
  BY ElementOfSeq
<1>2. Len(s) \in Nat
  OBVIOUS
<1>3. SubSeq(s, 1, k - 1) \in Seq(S)
  BY <1>1, <1>2, SubSeqProperties
<1>4. SubSeq(s, k + 1, Len(s)) \in Seq(S)
  BY <1>1, <1>2, SubSeqProperties
<1> QED
  BY <1>3, <1>4, ConcatProperties

\* Datagrams(sent) made of frames sent have the fields TypeOK asks for.
LEMMA FlightTyped ==
    ASSUME TypeOK, NEW s \in Seq(Datagrams(sent))
    PROVE  \A k \in 1 .. Len(s) :
              /\ s[k].id \in Id /\ s[k].size \in Size
              /\ s[k].seq \in 0 .. (Frames(s[k].size) - 1)
<1>1. \A k \in 1 .. Len(s) : s[k] \in Datagrams(sent)
  BY ElementOfSeq
<1> QED
  BY <1>1, DatagramFacts

\* A frame sent adds datagrams and takes none of the truth of the old ones away.
LEMMA SendSound ==
    ASSUME UdpInv, NEW size \in Size, Send(size)
    PROVE  UdpInv'
<1> USE UdpAssumption DEF UdpAssumption
<1> DEFINE m == Len(sent) + 1
           id == idSeq'
<1>1. /\ id \in Id
      /\ sent \in Seq([id : Id, size : Size]) /\ Len(sent) \in Nat
      /\ [id |-> id, size |-> size] \in [id : Id, size : Size]
  BY DEF UdpInv, TypeOK, Send, Id
<1>2. /\ sent' \in Seq([id : Id, size : Size])
      /\ Len(sent') = m
      /\ \A n \in 1 .. Len(sent) : sent'[n] = sent[n]
      /\ sent'[m] = [id |-> id, size |-> size]
  BY <1>1 DEF Send
<1>3. \A n \in 1 .. Len(sent) : n \in 1 .. Len(sent')
  BY <1>1, <1>2
<1>4. Datagrams(sent) \subseteq Datagrams(sent')
  BY <1>2, <1>3 DEF Datagrams
<1>5. \A seq \in 0 .. (Frames(size) - 1) : Fragment(m, id, size, seq) \in Datagrams(sent')
  <2>1. m \in 1 .. Len(sent') /\ sent'[m].id = id /\ sent'[m].size = size
    BY <1>1, <1>2
  <2> HIDE DEF m, id
  <2> QED
    BY <2>1 DEF Datagrams
<1>6. net' \in Seq(Datagrams(sent'))
  <2> DEFINE new == [k \in 1 .. Frames(size) |-> Fragment(m, id, size, k - 1)]
  <2>1. Frames(size) \in Nat
    BY FramesFacts
  <2>2. \A k \in 1 .. Frames(size) : k - 1 \in 0 .. (Frames(size) - 1)
    BY <2>1
  <2>3. new \in [1 .. Frames(size) -> Datagrams(sent')]
    BY <1>5, <2>2
  <2>4. new \in Seq(Datagrams(sent'))
    BY <2>1, <2>3
  <2>5. net \in Seq(Datagrams(sent'))
    BY <1>4 DEF UdpInv, PiecesInv
  <2>6. net' = net \o new
    BY DEF Send
  <2> HIDE DEF new
  <2> QED
    BY <2>4, <2>5, <2>6, ConcatProperties
<1>7. UNCHANGED <<items, out, unused>>
  BY DEF Send
<1>8. TypeOK'
  <2>1. Len(sent') <= MaxFrames
    BY <1>1, <1>2 DEF Send
  <2>2. \A k \in 1 .. Len(net') : net'[k] \in Datagrams(sent')
    BY <1>6, ElementOfSeq
  <2>3. \A d \in Datagrams(sent') : d.id \in Id /\ d.size \in Size
                              /\ d.seq \in 0 .. (Frames(d.size) - 1)
    <3> SUFFICES ASSUME NEW d \in Datagrams(sent')
                 PROVE  d.id \in Id /\ d.size \in Size /\ d.seq \in 0 .. (Frames(d.size) - 1)
      OBVIOUS
    <3>1. PICK n \in 1 .. Len(sent') : \E seq \in 0 .. (Frames(sent'[n].size) - 1) :
              d = Fragment(n, sent'[n].id, sent'[n].size, seq)
      BY DEF Datagrams
    <3>2. sent'[n] \in [id : Id, size : Size]
      BY <1>2, ElementOfSeq
    <3> QED
      BY <3>1, <3>2 DEF Fragment
  <2> QED
    BY <1>1, <1>2, <1>7, <2>1, <2>2, <2>3
    DEF UdpInv, TypeOK, CombinerTyped, Frames, NoFrame, Garbage
<1>9. PiecesInv'
  <2>1. ASSUME NEW j \in DOMAIN items, NEW p \in DOMAIN items[j].bytes,
               items[j].found[p \div FragmentSize]
        PROVE  \E n \in 1 .. Len(sent') :
                  sent'[n] = [id |-> j, size |-> items[j].size] /\ items[j].bytes[p] = <<n, p>>
    <3>1. Genuine(j, items[j].size, p, items[j].bytes[p])
      BY <2>1 DEF UdpInv, PiecesInv, CombinerSound
    <3> QED
      BY <3>1, <1>2, <1>3 DEF Genuine
  <2> QED
    BY <2>1, <1>6, <1>7 DEF PiecesInv, CombinerSound, Genuine
<1>10. RightBytes'
  BY <1>2, <1>3, <1>7 DEF UdpInv, RightBytes, Bytes, NoFrame, Garbage
<1>11. NoneLeftComplete' /\ NothingUsedTwice'
  BY <1>7 DEF UdpInv, NoneLeftComplete, NothingUsedTwice, Complete
<1> QED
  BY <1>8, <1>9, <1>10, <1>11 DEF UdpInv

\* A datagram received: the combiner it goes to is the only one it can complete,
\* and a frame is handed over only when all its pieces are there.
LEMMA ReceiveSound ==
    ASSUME UdpInv, NEW k \in 1 .. Len(net), NEW again \in BOOLEAN, Receive(k, again)
    PROVE  UdpInv'
<1> USE UdpAssumption DEF UdpAssumption
<1> DEFINE d == net[k]
           held == Added(d)
           pieces == unused \cup {<<d.id, d.size, d.seq>>}
<1>1. TypeOK /\ d \in Datagrams(sent) /\ UNCHANGED <<idSeq, sent>> /\ GetFrame(held, pieces)
  <2>1. UNCHANGED <<idSeq, sent>> /\ GetFrame(held, pieces)
    BY DEF Receive
  <2>2. TypeOK /\ net \in Seq(Datagrams(sent))
    BY DEF UdpInv, PiecesInv
  <2>3. \A S : net \in Seq(S) => net[k] \in S
    BY ElementOfSeq
  <2> HIDE DEF held, pieces
  <2> QED
    BY <2>1, <2>2, <2>3
<1>2. d.id \in Id /\ d.size \in Size /\ d.seq \in Nat
  <2>1. d.id \in Id /\ d.size \in Size /\ d.seq \in 0 .. (Frames(d.size) - 1)
    <3> HIDE DEF d
    <3> QED
      BY <1>1, DatagramFacts
  <2> HIDE DEF d
  <2>2. d.size \in Nat \ {0}
    BY <2>1
  <2>3. Frames(d.size) \in Nat
    BY <2>2, FramesFacts
  <2> QED
    BY <2>1, <2>3
<1>3. DOMAIN held = DOMAIN items \cup {d.id} /\ DOMAIN held \subseteq Id
  BY <1>1, <1>2 DEF Added, TypeOK
<1>4. ASSUME NEW id \in DOMAIN held, id # d.id
      PROVE  id \in DOMAIN items /\ held[id] = items[id]
  BY <1>4 DEF Added
<1>5. \A id \in DOMAIN held :
          /\ CombinerTyped(held[id]) /\ CombinerSound(id, held[id])
          /\ \A seq \in DOMAIN held[id].found :
                held[id].found[seq] => <<id, held[id].size, seq>> \in pieces
  <2> SUFFICES ASSUME NEW id \in DOMAIN held
               PROVE  /\ CombinerTyped(held[id]) /\ CombinerSound(id, held[id])
                      /\ \A seq \in DOMAIN held[id].found :
                            held[id].found[seq] => <<id, held[id].size, seq>> \in pieces
    OBVIOUS
  <2>1. CASE id # d.id
    BY <2>1, <1>4 DEF UdpInv, TypeOK, PiecesInv, NothingUsedTwice
  <2>2. CASE id = d.id
    <3> DEFINE c == IF id \in DOMAIN items THEN items[id] ELSE EmptyCombiner
    <3>1. held[id] = Accept(c, d)
      BY <2>2 DEF Added
    <3>2. c = EmptyCombiner \/ (CombinerTyped(c) /\ CombinerSound(d.id, c))
      BY <2>2 DEF UdpInv, TypeOK, PiecesInv
    <3>3. ~CombinerTyped(EmptyCombiner)
      BY DEF CombinerTyped, EmptyCombiner
    <3>4. CombinerTyped(c) => id \in DOMAIN items /\ c = items[id]
      BY <3>3
    <3> HIDE DEF c, held
    <3>5. /\ CombinerTyped(held[id]) /\ CombinerSound(id, held[id])
          /\ \A seq \in DOMAIN held[id].found : held[id].found[seq] =>
                \/ CombinerTyped(c) /\ held[id].size = c.size
                       /\ seq \in DOMAIN c.found /\ c.found[seq]
                \/ held[id].size = d.size /\ seq = d.seq
      BY <3>1, <3>2, <1>1, <2>2, AcceptSound
    <3>6. CombinerTyped(c) => \A seq \in DOMAIN c.found :
              c.found[seq] => <<id, c.size, seq>> \in unused
      BY <3>4 DEF UdpInv, NothingUsedTwice
    <3> QED
      BY <3>5, <3>6, <2>2
  <2> QED
    BY <2>1, <2>2
<1>6. \A id \in DOMAIN held : Complete(held[id]) => id = d.id
  BY <1>4 DEF UdpInv, NoneLeftComplete
<1>7. net' \in Seq(Datagrams(sent)) /\ Datagrams(sent') = Datagrams(sent)
  <2>1. Datagrams(sent') = Datagrams(sent)
    BY <1>1
  <2>2. net \in Seq(Datagrams(sent))
    BY DEF UdpInv, PiecesInv
  <2>3. net' = net \/ net' = SubSeq(net, 1, k - 1) \o SubSeq(net, k + 1, Len(net))
    BY DEF Receive
  <2> QED
    BY <2>1, <2>2, <2>3, Removed
<1>8. pieces \subseteq Id \X Size \X Nat
  BY <1>1, <1>2 DEF TypeOK
<1> DEFINE Kept ==
        /\ DOMAIN items' \subseteq DOMAIN held
        /\ \A id \in DOMAIN items' : items'[id] = held[id] /\ ~Complete(held[id])
        /\ unused' \subseteq pieces
        /\ \A id \in DOMAIN items' : \A size, seq :
              <<id, size, seq>> \in pieces => <<id, size, seq>> \in unused'
    Handover ==
        \/ out' = out
        \/ \E id \in DOMAIN held :
              Complete(held[id]) /\ out' = [id |-> id, bytes |-> held[id].bytes]
<1>9. Kept /\ Handover
  <2>1. CASE /\ \A id \in DOMAIN held : ~Complete(held[id])
             /\ items' = held /\ UNCHANGED out /\ unused' = pieces
    <3> HIDE DEF held, pieces
    <3> QED
      BY <2>1
  <2>2. ASSUME NEW id \in DOMAIN held, NEW freed \in Id,
               Complete(held[id]), freed >= id,
               items' = KeepOver(held, freed),
               out' = [id |-> id, bytes |-> held[id].bytes],
               unused' = {piece \in pieces : piece[1] # id}
        PROVE  Kept /\ Handover
    <3> HIDE DEF held, pieces
    <3>1. id \in Int /\ freed \in Int /\ \A j \in DOMAIN held : j \in Int
      BY <1>3 DEF Id
    <3>2. DOMAIN items' = {j \in DOMAIN held : j > freed}
          /\ \A j \in DOMAIN items' : items'[j] = held[j]
      BY <2>2 DEF KeepOver
    <3>3. \A j \in DOMAIN items' : j # id
      BY <3>1, <3>2, <2>2
    <3>4. id = d.id
      BY <1>6, <2>2
    <3> QED
      BY <3>2, <3>3, <3>4, <1>6, <2>2
  <2>3. \/ /\ \A id \in DOMAIN held : ~Complete(held[id])
           /\ items' = held /\ UNCHANGED out /\ unused' = pieces
        \/ \E id \in DOMAIN held, freed \in Id :
           /\ Complete(held[id]) /\ freed >= id
           /\ items' = KeepOver(held, freed)
           /\ out' = [id |-> id, bytes |-> held[id].bytes]
           /\ unused' = {piece \in pieces : piece[1] # id}
    <3> HIDE DEF held, pieces
    <3> QED
      BY <1>1 DEF GetFrame
  <2> HIDE DEF held, pieces, Kept, Handover
  <2> QED
    BY <2>1, <2>2, <2>3
<1> HIDE DEF held, pieces
<1>10. TypeOK'
  <2>1. \A j \in 1 .. Len(net') :
            /\ net'[j].id \in Id /\ net'[j].size \in Size
            /\ net'[j].seq \in 0 .. (Frames(net'[j].size) - 1)
    BY <1>1, <1>7, FlightTyped
  <2>2. out' = NoFrame \/ out'.id \in Id
    BY <1>1, <1>3, <1>9 DEF TypeOK
  <2>3. /\ idSeq' \in Id
        /\ sent' \in Seq([id : Id, size : Size]) /\ Len(sent') <= MaxFrames
    BY <1>1 DEF TypeOK
  <2>4. DOMAIN items' \subseteq Id /\ \A id \in DOMAIN items' : CombinerTyped(items'[id])
    BY <1>3, <1>5, <1>9
  <2>5. unused' \subseteq Id \X Size \X Nat
    BY <1>8, <1>9
  <2> QED
    BY <2>1, <2>2, <2>3, <2>4, <2>5
    DEF TypeOK, CombinerTyped, Frames, NoFrame, Garbage
<1>11. PiecesInv'
  <2>1. \A id \in DOMAIN items' : CombinerSound(id, items'[id])
    BY <1>5, <1>9
  <2> QED
    BY <2>1, <1>1, <1>7 DEF PiecesInv, CombinerSound, Genuine
<1>12. RightBytes'
  <2>1. CASE out' = out
    BY <2>1, <1>1 DEF UdpInv, RightBytes, Bytes, NoFrame, Garbage
  <2>2. ASSUME NEW id \in DOMAIN held, Complete(held[id]),
               out' = [id |-> id, bytes |-> held[id].bytes]
        PROVE  RightBytes'
    <3> DEFINE size == held[id].size
    <3>1. CombinerTyped(held[id]) /\ CombinerSound(id, held[id])
      BY <1>5
    <3>2. /\ size \in Nat \ {0}
          /\ DOMAIN held[id].found = 0 .. (Frames(size) - 1)
          /\ DOMAIN held[id].bytes = 0 .. (size - 1)
      BY <3>1 DEF CombinerTyped
    <3>3. \A p \in 0 .. (size - 1) : Genuine(id, size, p, held[id].bytes[p])
      BY <3>1, <3>2, <2>2, PlaceFacts DEF CombinerSound, Complete
    <3>4. 0 \in 0 .. (size - 1)
      BY <3>2
    <3>5. out'.id = id /\ out'.bytes = held[id].bytes
      BY <2>2
    <3>6. \A p \in 0 .. (size - 1) : \E n \in 1 .. Len(sent') :
              /\ sent'[n].id = id /\ 0 .. (size - 1) = 0 .. (sent'[n].size - 1)
              /\ held[id].bytes[p] = <<n, p>>
      BY <3>3, <1>1 DEF Genuine
    <3> HIDE DEF size
    <3> DEFINE frames == {n \in 1 .. Len(sent') :
                   sent'[n].id = id /\ 0 .. (size - 1) = 0 .. (sent'[n].size - 1)}
    <3>7. frames # {} /\ \A p \in 0 .. (size - 1) : \E n \in frames : held[id].bytes[p] = <<n, p>>
      BY <3>4, <3>6
    <3> QED
      BY <3>2, <3>5, <3>7 DEF RightBytes, Bytes, NoFrame, Garbage
  <2> QED
    BY <1>9, <2>1, <2>2
<1>13. NoneLeftComplete'
  BY <1>9 DEF NoneLeftComplete, Complete
<1>14. NothingUsedTwice'
  BY <1>5, <1>9 DEF NothingUsedTwice
<1> QED
  BY <1>10, <1>11, <1>12, <1>13, <1>14 DEF UdpInv

\* A datagram lost.
LEMMA LoseSound ==
    ASSUME UdpInv, NEW k \in 1 .. Len(net), Lose(k)
    PROVE  UdpInv'
<1>1. TypeOK /\ UNCHANGED <<idSeq, items, out, sent, unused>>
  BY DEF UdpInv, Lose
<1>2. net' \in Seq(Datagrams(sent))
  BY Removed DEF UdpInv, PiecesInv, Lose
<1>3. Datagrams(sent') = Datagrams(sent)
  BY <1>1
<1>4. TypeOK'
  <2>1. \A j \in 1 .. Len(net') :
            /\ net'[j].id \in Id /\ net'[j].size \in Size
            /\ net'[j].seq \in 0 .. (Frames(net'[j].size) - 1)
    BY <1>1, <1>2, FlightTyped
  <2> QED
    BY <2>1, <1>1 DEF TypeOK, CombinerTyped, Frames, NoFrame, Garbage
<1>5. PiecesInv'
  BY <1>1, <1>2, <1>3 DEF UdpInv, PiecesInv, CombinerSound, Genuine
<1>6. RightBytes' /\ NoneLeftComplete' /\ NothingUsedTwice'
  BY <1>1 DEF UdpInv, RightBytes, NoneLeftComplete, NothingUsedTwice, Complete, Bytes, NoFrame, Garbage
<1> QED
  BY <1>4, <1>5, <1>6 DEF UdpInv

\* A step that leaves what the invariant reads alone keeps it.
LEMMA UnchangedSound ==
    ASSUME UdpInv, UNCHANGED <<net, items, out, sent, unused>>, idSeq' \in Id
    PROVE  UdpInv'
<1>1. TypeOK'
  BY DEF UdpInv, TypeOK, CombinerTyped, Frames, NoFrame, Garbage
<1>2. Datagrams(sent') = Datagrams(sent)
  OBVIOUS
<1>3. PiecesInv'
  BY <1>2 DEF UdpInv, PiecesInv, CombinerSound, Genuine
<1>4. RightBytes' /\ NoneLeftComplete' /\ NothingUsedTwice'
  BY DEF UdpInv, RightBytes, NoneLeftComplete, NothingUsedTwice, Complete, Bytes, NoFrame, Garbage
<1> QED
  BY <1>1, <1>3, <1>4 DEF UdpInv

-----------------------------------------------------------------------------
(* The theorems.                                                           *)

\* Whatever the network does and however often the sender is started again, what
\* is in flight and what is put together are pieces of frames that were sent.
THEOREM UdpCorrect == Spec => []UdpInv
<1>1. ASSUME UdpInv, [Next]_vars PROVE UdpInv'
  <2>1. CASE \E size \in Size : Send(size)
    BY <1>1, <2>1, SendSound
  <2>2. CASE Restart
    <3>1. idSeq' \in Id
      BY <2>2, UdpAssumption DEF Restart, Id, UdpAssumption
    <3> QED
      BY <1>1, <2>2, <3>1, UnchangedSound DEF Restart
  <2>3. CASE \E k \in 1 .. Len(net), again \in BOOLEAN : Receive(k, again)
    BY <1>1, <2>3, ReceiveSound
  <2>4. CASE \E k \in 1 .. Len(net) : Lose(k)
    BY <1>1, <2>4, LoseSound
  <2>5. CASE UNCHANGED vars
    BY <1>1, <2>5, UnchangedSound DEF vars, UdpInv, TypeOK
  <2> QED
    BY <1>1, <2>1, <2>2, <2>3, <2>4, <2>5 DEF Next
<1> QED
  BY <1>1, InitSound, PTL DEF Spec

\* Every variable keeps its type; no byte is written past the end of a buffer.
THEOREM TypeCorrect == Spec => []TypeOK
BY UdpCorrect, PTL DEF UdpInv

\* Every byte handed over is the byte of its place in a frame of its id and length.
THEOREM OnlyRightBytes == Spec => []RightBytes
BY UdpCorrect, PTL DEF UdpInv

\* No complete frame waits for another datagram.
THEOREM NoneWaits == Spec => []NoneLeftComplete
BY UdpCorrect, PTL DEF UdpInv

\* No piece counts for two frames handed over.
THEOREM NoPieceTwice == Spec => []NothingUsedTwice
BY UdpCorrect, PTL DEF UdpInv


-----------------------------------------------------------------------------
(* A network that only loses datagrams, and ids used once.                 *)

\* What is assumed of the network and of the number of frames for the rest.
OrderedNetwork == Events \subseteq {"lose"} /\ MaxFrames < IdModulus

\* What is left of a sequence when its k-th element is taken out.
Without(s, k) == SubSeq(s, 1, k - 1) \o SubSeq(s, k + 1, Len(s))

\* What is left when one element of a sequence is taken out, in the same order.
LEMMA RemovedAt ==
    ASSUME NEW S, NEW s \in Seq(S), NEW k \in 1 .. Len(s)
    PROVE  /\ Len(Without(s, k)) = Len(s) - 1
           /\ \A j \in 1 .. Len(Without(s, k)) :
                 Without(s, k)[j] = s[IF j < k THEN j ELSE j + 1]
<1>1. Len(s) \in Nat /\ \A i \in 1 .. Len(s) : s[i] \in S
  BY ElementOfSeq
<1> DEFINE a == SubSeq(s, 1, k - 1)
           b == SubSeq(s, k + 1, Len(s))
           t == a \o b
<1>2. /\ a \in Seq(S) /\ Len(a) = k - 1
      /\ \A i \in 1 .. Len(a) : a[i] = s[i]
  BY <1>1, SubSeqProperties
<1>3. b \in Seq(S) /\ Len(b) = Len(s) - k /\ \A i \in 1 .. Len(b) : b[i] = s[k + i]
  <2>1. /\ b \in Seq(S)
        /\ Len(b) = IF k + 1 <= Len(s) THEN Len(s) - (k + 1) + 1 ELSE 0
        /\ \A i \in 1 .. Len(b) : b[i] = s[k + 1 + i - 1]
    BY <1>1, SubSeqProperties
  <2>2. \A i \in 1 .. Len(b) : k + 1 + i - 1 = k + i
    BY <2>1, <1>1
  <2> QED
    BY <2>1, <2>2, <1>1
<1> HIDE DEF a, b
<1>4. t = a \o b
  OBVIOUS
<1> HIDE DEF t
<1>5. /\ Len(a \o b) = Len(a) + Len(b)
      /\ \A i \in 1 .. Len(a) + Len(b) :
            (a \o b)[i] = IF i <= Len(a) THEN a[i] ELSE b[i - Len(a)]
  BY <1>2, <1>3, ConcatProperties
<1>6. Len(t) = Len(s) - 1
  <2>1. k \in Nat /\ Len(s) \in Nat
    BY <1>1
  <2>2. Len(a) = k - 1 /\ Len(b) = Len(s) - k
    BY <1>2, <1>3
  <2>3. Len(t) = Len(a) + Len(b)
    BY <1>5, <1>4
  <2> QED
    BY <2>1, <2>2, <2>3
<1>7. ASSUME NEW j \in 1 .. Len(t) PROVE t[j] = s[IF j < k THEN j ELSE j + 1]
  <2>1. CASE j < k
    BY <1>7, <2>1, <1>1, <1>2, <1>3, <1>4, <1>5, <1>6
  <2>2. CASE j >= k
    <3>1. j - Len(a) \in 1 .. Len(b) /\ k + (j - Len(a)) = j + 1
      BY <1>7, <2>2, <1>1, <1>2, <1>3, <1>6
    <3>2. t[j] = b[j - Len(a)]
      BY <1>7, <2>2, <1>1, <1>2, <1>3, <1>4, <1>5, <1>6
    <3>3. b[j - Len(a)] = s[j + 1]
      BY <3>1, <1>3
    <3> QED
      BY <3>2, <3>3, <2>2, <1>7, <1>6, <1>1
  <2> QED
    BY <1>7, <2>1, <2>2, <1>1, <1>6
<1> QED
  BY <1>6, <1>7 DEF Without, t, a, b

\* The ids of frames are their numbers.
LEMMA IdIsNumber ==
    ASSUME TypeOK, InTurn, NEW d \in Datagrams(sent)
    PROVE  /\ d.id \in 1 .. Len(sent) /\ sent[d.id] = [id |-> d.id, size |-> d.size]
           /\ d.size \in Size
           /\ d.seq \in 0 .. (Frames(d.size) - 1)
           /\ d.data = [k \in 0 .. (Length(d.size, d.seq) - 1) |->
                           <<d.id, d.seq * FragmentSize + k>>]
<1>1. PICK n \in 1 .. Len(sent) :
              /\ sent[n] = [id |-> d.id, size |-> d.size]
              /\ d.id \in Id
              /\ d.size \in Size
              /\ d.seq \in 0 .. (Frames(d.size) - 1)
              /\ d.data = [k \in 0 .. (Length(d.size, d.seq) - 1) |->
                              <<n, d.seq * FragmentSize + k>>]
  BY DatagramFacts
<1>2. n = d.id
  BY <1>1 DEF InTurn
<1> QED
  BY <1>1, <1>2

\* What addFragment makes of the combiner of the datagram's own frame.
LEMMA AcceptExact ==
    ASSUME NEW c, NEW d, d.size \in Size, d.seq \in 0 .. (Frames(d.size) - 1),
           DOMAIN d.data = 0 .. (Length(d.size, d.seq) - 1),
           c = EmptyCombiner \/ (CombinerTyped(c) /\ c.size = d.size)
    PROVE  /\ Accept(c, d).size = d.size
           /\ DOMAIN Accept(c, d).found = 0 .. (Frames(d.size) - 1)
           /\ Accept(c, d).found[d.seq]
           /\ \A k \in 0 .. (Frames(d.size) - 1) :
                 Accept(c, d).found[k] <=> k = d.seq \/ (c # EmptyCombiner /\ c.found[k])
           /\ Accept(c, d).bytes = [p \in DOMAIN Accept(c, d).bytes |-> Accept(c, d).bytes[p]]
<1> DEFINE at == d.seq * FragmentSize
           o == Opened(c, d.size)
           f == [k \in DOMAIN o.found |-> o.found[k] \/ k = d.seq]
<1>1. d.size \in Nat \ {0}
  BY UdpAssumption DEF UdpAssumption
<1>2. /\ o.size = d.size
      /\ o.found \in [0 .. (Frames(d.size) - 1) -> BOOLEAN]
      /\ \A k \in 0 .. (Frames(d.size) - 1) : o.found[k] <=> c # EmptyCombiner /\ c.found[k]
  <2>1. CASE c = EmptyCombiner
    <3>1. c.size = 0
      BY <2>1 DEF EmptyCombiner
    <3>2. o = [size  |-> d.size,
               found |-> [k \in 0 .. (Frames(d.size) - 1) |-> FALSE],
               bytes |-> [p \in 0 .. (d.size - 1) |-> Garbage]]
      BY <3>1 DEF Opened
    <3> QED
      BY <2>1, <3>2
  <2>2. CASE c # EmptyCombiner
    <3>1. CombinerTyped(c) /\ c.size = d.size
      BY <2>2
    <3>2. o = c
      BY <3>1, <1>1 DEF Opened
    <3> QED
      BY <2>2, <3>1, <3>2 DEF CombinerTyped
  <2> QED
    BY <2>1, <2>2
<1>3. Accept(c, d) = [size |-> o.size, found |-> f, bytes |-> Copy(o.bytes, at, d.data)]
  <2>1. ~(d.seq >= Frames(d.size)) /\ ~(d.seq * (FragmentSize - 1) > d.size)
    BY <1>1, PlaceAccepted
  <2>2. ~(d.seq # Frames(d.size) - 1 /\ Cardinality(DOMAIN d.data) # FragmentSize)
    BY <1>1, FullFragment
  <2> QED
    BY <2>1, <2>2, <1>2 DEF Accept
<1>4. /\ Accept(c, d).size = o.size /\ Accept(c, d).found = f
      /\ Accept(c, d).bytes = Copy(o.bytes, at, d.data)
  <2> HIDE DEF o, f, at
  <2> QED
    BY <1>3
<1>5. /\ DOMAIN f = 0 .. (Frames(d.size) - 1)
      /\ \A k \in 0 .. (Frames(d.size) - 1) : f[k] <=> o.found[k] \/ k = d.seq
  <2> HIDE DEF o
  <2> QED
    BY <1>2
<1>6. \A b : b = Copy(o.bytes, at, d.data) => b = [p \in DOMAIN b |-> b[p]]
  BY DEF Copy
<1> HIDE DEF o, f, at
<1>7. \A k \in 0 .. (Frames(d.size) - 1) : f[k] <=> k = d.seq \/ (c # EmptyCombiner /\ c.found[k])
  BY <1>2, <1>5
<1> QED
  BY <1>2, <1>4, <1>5, <1>6, <1>7

\* Nothing has been sent.
LEMMA InitOrdered == Init => OrderedInv
BY DEF Init, OrderedInv, InTurn, HeldInTurn, OutWhole, PiecesHeld, ReceivedIsHandedOver

\* A frame sent has the next number, and its datagrams come after all others.
LEMMA SendOrdered ==
    ASSUME UdpInv, OrderedInv, OrderedNetwork, NEW size \in Size, Send(size)
    PROVE  OrderedInv'
<1> USE UdpAssumption DEF UdpAssumption
<1> DEFINE m == Len(sent) + 1
<1>1. /\ sent \in Seq([id : Id, size : Size]) /\ Len(sent) \in Nat
      /\ Len(sent) < MaxFrames /\ MaxFrames < IdModulus
      /\ idSeq = Len(sent)
      /\ \A n \in 1 .. Len(sent) : sent[n].id = n
  BY DEF UdpInv, TypeOK, Send, OrderedNetwork, OrderedInv, InTurn
<1>2. idSeq' = m /\ m \in Nat
  <2>1. m \in 0 .. (IdModulus - 1)
    BY <1>1
  <2>2. m % IdModulus = m
    <3> HIDE DEF m
    <3>1. m \in Nat /\ IdModulus \in Nat /\ m < IdModulus
      BY <2>1
    <3> QED
      BY <3>1
  <2> QED
    BY <1>1, <2>1, <2>2 DEF Send
<1>3. /\ Len(sent') = m
      /\ \A n \in 1 .. Len(sent) : sent'[n] = sent[n]
      /\ sent'[m] = [id |-> m, size |-> size]
  <2>1. sent' = Append(sent, [id |-> m, size |-> size])
    BY <1>2 DEF Send
  <2> QED
    BY <2>1, <1>1
<1>4. UNCHANGED <<items, out, unused>>
  BY DEF Send
<1>5. /\ net \in Seq(Datagrams(sent)) /\ Len(net) \in Nat
      /\ \A k \in 1 .. Len(net) : net[k].id \in 1 .. Len(sent)
  <2>1. net \in Seq(Datagrams(sent)) /\ \A k \in 1 .. Len(net) : net[k] \in Datagrams(sent)
    BY ElementOfSeq DEF UdpInv, PiecesInv
  <2>2. TypeOK /\ InTurn
    BY DEF UdpInv, OrderedInv
  <2>3. \A d \in Datagrams(sent) : d.id \in 1 .. Len(sent)
    BY <2>2, IdIsNumber
  <2> QED
    BY <2>1, <2>3
<1> DEFINE new == [k \in 1 .. Frames(size) |-> Fragment(m, m, size, k - 1)]
<1>6. /\ Frames(size) \in Nat
      /\ Len(net') = Len(net) + Frames(size)
      /\ \A k \in 1 .. Len(net) : net'[k] = net[k]
      /\ \A k \in 1 .. Frames(size) :
            net'[Len(net) + k].id = m /\ net'[Len(net) + k].seq = k - 1
  <2>1. Frames(size) \in Nat
    BY FramesFacts
  <2>2. net' = net \o new
    BY <1>2 DEF Send
  <2>3. \A k \in 1 .. Frames(size) : new[k].id = m /\ new[k].seq = k - 1
    BY DEF Fragment
  <2> DEFINE S == Datagrams(sent) \cup {Fragment(m, m, size, k - 1) : k \in 1 .. Frames(size)}
  <2>4. new \in [1 .. Frames(size) -> S]
    OBVIOUS
  <2>5. net \in Seq(S)
    BY <1>5
  <2> HIDE DEF new, S
  <2>6. new \in Seq(S) /\ Len(new) = Frames(size)
    BY <2>1, <2>4
  <2>7. /\ Len(net \o new) = Len(net) + Len(new)
        /\ \A i \in 1 .. Len(net) + Len(new) :
              (net \o new)[i] = IF i <= Len(net) THEN net[i] ELSE new[i - Len(net)]
    BY <2>5, <2>6, ConcatProperties
  <2>8. ASSUME NEW k \in 1 .. Frames(size) PROVE net'[Len(net) + k] = new[k]
    BY <2>8, <2>1, <2>2, <2>6, <2>7, <1>5
  <2> QED
    BY <2>1, <2>2, <2>3, <2>6, <2>7, <2>8, <1>5
<1> HIDE DEF new
<1>7. ASSUME NEW k \in 1 .. Len(net')
      PROVE  \/ k \in 1 .. Len(net) /\ net'[k] = net[k]
             \/ /\ k - Len(net) \in 1 .. Frames(size) /\ k > Len(net)
                /\ net'[k].id = m /\ net'[k].seq = k - Len(net) - 1
  <2>1. CASE k <= Len(net)
    BY <1>7, <2>1, <1>5, <1>6
  <2>2. CASE k > Len(net)
    <3>1. k - Len(net) \in 1 .. Frames(size) /\ Len(net) + (k - Len(net)) = k
      BY <1>7, <2>2, <1>5, <1>6
    <3> QED
      BY <3>1, <2>2, <1>6
  <2> QED
    BY <1>7, <2>1, <2>2, <1>5, <1>6
<1>8. ASSUME NEW j \in 1 .. Len(net'), NEW k \in 1 .. Len(net'), j < k
      PROVE  Earlier(net'[j], net'[k])
  <2>1. CASE k \in 1 .. Len(net) /\ net'[k] = net[k]
    <3>1. j \in 1 .. Len(net) /\ net'[j] = net[j]
      BY <1>8, <2>1, <1>5, <1>6
    <3> QED
      BY <1>8, <2>1, <3>1 DEF OrderedInv, InTurn, Earlier
  <2>2. CASE k > Len(net) /\ net'[k].id = m /\ net'[k].seq = k - Len(net) - 1
    <3>1. CASE j \in 1 .. Len(net) /\ net'[j] = net[j]
      BY <2>2, <3>1, <1>1, <1>5 DEF Earlier
    <3>2. CASE net'[j].id = m /\ net'[j].seq = j - Len(net) - 1
      BY <1>8, <2>2, <3>2, <1>5 DEF Earlier
    <3> QED
      BY <1>8, <1>7, <3>1, <3>2
  <2> QED
    BY <1>8, <1>7, <2>1, <2>2
<1>9. out # NoFrame => out.id \in 1 .. Len(sent)
  BY DEF OrderedInv, OutWhole
<1>10. \A piece \in unused : piece[1] \in 1 .. Len(sent)
  BY DEF OrderedInv, PiecesHeld
<1>11. InTurn'
  <2>1. idSeq' = Len(sent')
    BY <1>2, <1>3
  <2>2. \A n \in 1 .. Len(sent') : sent'[n].id = n
    <3> SUFFICES ASSUME NEW n \in 1 .. Len(sent') PROVE sent'[n].id = n
      OBVIOUS
    <3>1. CASE n = m
      BY <3>1, <1>3
    <3>2. CASE n \in 1 .. Len(sent)
      BY <3>2, <1>3, <1>1
    <3> QED
      BY <3>1, <3>2, <1>1, <1>3
  <2>3. ASSUME NEW k \in 1 .. Len(net')
        PROVE  /\ \A piece \in unused : piece[1] <= net'[k].id
               /\ out # NoFrame => out.id < net'[k].id
    <3>1. CASE k \in 1 .. Len(net) /\ net'[k] = net[k]
      BY <3>1 DEF OrderedInv, InTurn
    <3>2. CASE net'[k].id = m
      BY <3>2, <1>1, <1>9, <1>10
    <3> QED
      BY <2>3, <3>1, <3>2, <1>7
  <2> QED
    BY <2>1, <2>2, <2>3, <1>4, <1>8 DEF InTurn, Earlier, NoFrame, Garbage
<1>12. HeldInTurn'
  <2> SUFFICES ASSUME NEW id \in DOMAIN items
               PROVE  /\ id \in 1 .. Len(sent') /\ items[id].size = sent'[id].size
                      /\ out # NoFrame => out.id < id
                      /\ items[id].bytes = [p \in DOMAIN items[id].bytes |-> items[id].bytes[p]]
                      /\ \A k \in 1 .. Len(net') :
                          /\ id <= net'[k].id
                          /\ id = net'[k].id =>
                              \A seq \in DOMAIN items[id].found :
                                  items[id].found[seq] => seq < net'[k].seq
    BY <1>4 DEF HeldInTurn, NoFrame, Garbage
  <2>1. /\ id \in 1 .. Len(sent) /\ items[id].size = sent[id].size
        /\ out # NoFrame => out.id < id
        /\ items[id].bytes = [p \in DOMAIN items[id].bytes |-> items[id].bytes[p]]
        /\ \A k \in 1 .. Len(net) :
              /\ id <= net[k].id
              /\ id = net[k].id =>
                  \A seq \in DOMAIN items[id].found : items[id].found[seq] => seq < net[k].seq
    BY DEF OrderedInv, HeldInTurn
  <2>2. id \in 1 .. Len(sent') /\ sent'[id] = sent[id]
    BY <2>1, <1>1, <1>3
  <2>3. \A k \in 1 .. Len(net') :
            /\ id <= net'[k].id
            /\ id = net'[k].id =>
                \A seq \in DOMAIN items[id].found : items[id].found[seq] => seq < net'[k].seq
    <3> SUFFICES ASSUME NEW k \in 1 .. Len(net')
                 PROVE  /\ id <= net'[k].id
                        /\ id = net'[k].id =>
                            \A seq \in DOMAIN items[id].found :
                                items[id].found[seq] => seq < net'[k].seq
      OBVIOUS
    <3>1. CASE k \in 1 .. Len(net) /\ net'[k] = net[k]
      BY <3>1, <2>1
    <3>2. CASE net'[k].id = m
      BY <3>2, <2>1, <1>1
    <3> QED
      BY <3>1, <3>2, <1>7
  <2> QED
    BY <2>1, <2>2, <2>3
<1>13. OutWhole'
  <2>1. out # NoFrame => out.id \in 1 .. Len(sent') /\ sent'[out.id] = sent[out.id]
    BY <1>1, <1>3, <1>9
  <2> QED
    BY <2>1, <1>4 DEF OrderedInv, OutWhole, Bytes, NoFrame, Garbage
<1>14. PiecesHeld'
  <2>1. \A piece \in unused :
            piece[1] \in 1 .. Len(sent') /\ sent'[piece[1]] = sent[piece[1]]
    BY <1>1, <1>3, <1>10
  <2> QED
    BY <2>1, <1>4 DEF OrderedInv, PiecesHeld, Frames, NoFrame, Garbage
<1>15. ReceivedIsHandedOver'
  <2> SUFFICES ASSUME NEW n \in 1 .. Len(sent')
               PROVE  \E seq \in 0 .. (Frames(sent'[n].size) - 1) :
                         <<sent'[n].id, sent'[n].size, seq>> \notin unused
    BY <1>4 DEF ReceivedIsHandedOver, Frames
  <2>1. CASE n \in 1 .. Len(sent)
    BY <2>1, <1>3 DEF OrderedInv, ReceivedIsHandedOver
  <2>2. CASE n = m
    <3>1. 0 \in 0 .. (Frames(size) - 1)
      BY FramesFacts
    <3>2. <<m, size, 0>> \notin unused
      <4>1. ASSUME <<m, size, 0>> \in unused PROVE FALSE
        <5>1. <<m, size, 0>>[1] \in 1 .. Len(sent)
          BY <4>1, <1>10
        <5> QED
          BY <5>1, <1>1
      <4> QED
        BY <4>1
    <3> QED
      BY <2>2, <3>1, <3>2, <1>3
  <2> QED
    BY <2>1, <2>2, <1>1, <1>3
<1> QED
  BY <1>11, <1>12, <1>13, <1>14, <1>15 DEF OrderedInv

\* Taking one datagram out keeps the others in order; taking the first one out
\* leaves those sent after it.
LEMMA Remaining ==
    ASSUME UdpInv, OrderedInv, NEW k \in 1 .. Len(net),
           net' = Without(net, k)
    PROVE  /\ \A j \in 1 .. Len(net') : \E i \in 1 .. Len(net) : net'[j] = net[i]
           /\ \A i, j \in 1 .. Len(net') : i < j => Earlier(net'[i], net'[j])
           /\ k = 1 => \A j \in 1 .. Len(net') : Earlier(net[1], net'[j])
<1>1. net \in Seq(Datagrams(sent))
  BY DEF UdpInv, PiecesInv
<1> DEFINE at(j) == IF j < k THEN j ELSE j + 1
<1>2. /\ Len(net') = Len(net) - 1
      /\ \A j \in 1 .. Len(net') : net'[j] = net[at(j)]
  BY <1>1, RemovedAt
<1>3. /\ Len(net) \in Nat /\ k \in Nat
      /\ \A j \in 1 .. Len(net') : at(j) \in 1 .. Len(net) /\ (k = 1 => 1 < at(j))
      /\ \A i, j \in 1 .. Len(net') : i < j => at(i) < at(j)
  <2>1. Len(net) \in Nat /\ k \in Nat /\ Len(net') = Len(net) - 1
    BY <1>1, <1>2
  <2>2. \A j \in 1 .. Len(net') : at(j) \in 1 .. Len(net) /\ (k = 1 => 1 < at(j))
    BY <2>1
  <2>3. \A i, j \in 1 .. Len(net') : i < j => at(i) < at(j)
    BY <2>1
  <2> QED
    BY <2>1, <2>2, <2>3
<1>4. \A i, j \in 1 .. Len(net) : i < j => Earlier(net[i], net[j])
  BY DEF OrderedInv, InTurn
<1> HIDE DEF at
<1>5. \A i, j \in 1 .. Len(net') : i < j => Earlier(net'[i], net'[j])
  BY <1>2, <1>3, <1>4
<1>6. ASSUME k = 1, NEW j \in 1 .. Len(net') PROVE Earlier(net[1], net'[j])
  BY <1>6, <1>2, <1>3, <1>4
<1> QED
  BY <1>2, <1>3, <1>5, <1>6

\* A datagram lost: nothing but what is in flight changes, and what is left of
\* that is still in order.
LEMMA LoseOrdered ==
    ASSUME UdpInv, OrderedInv, NEW k \in 1 .. Len(net), Lose(k)
    PROVE  OrderedInv'
<1>1. UNCHANGED <<idSeq, items, out, sent, unused>>
  BY DEF Lose
<1>2. /\ \A j \in 1 .. Len(net') : \E i \in 1 .. Len(net) : net'[j] = net[i]
      /\ \A i, j \in 1 .. Len(net') : i < j => Earlier(net'[i], net'[j])
  BY Remaining DEF Lose, Without
<1>3. InTurn'
  <2>1. ASSUME NEW j \in 1 .. Len(net')
        PROVE  /\ \A piece \in unused : piece[1] <= net'[j].id
               /\ out # NoFrame => out.id < net'[j].id
    BY <2>1, <1>2 DEF OrderedInv, InTurn
  <2>2. idSeq = Len(sent) /\ \A n \in 1 .. Len(sent) : sent[n].id = n
    BY DEF OrderedInv, InTurn
  <2> QED
    BY <2>1, <2>2, <1>1, <1>2 DEF InTurn, Earlier, NoFrame, Garbage
<1>4. HeldInTurn'
  <2>1. \A id \in DOMAIN items : \A j \in 1 .. Len(net') :
            /\ id <= net'[j].id
            /\ id = net'[j].id =>
                \A seq \in DOMAIN items[id].found : items[id].found[seq] => seq < net'[j].seq
    <3> SUFFICES ASSUME NEW id \in DOMAIN items, NEW j \in 1 .. Len(net')
                 PROVE  /\ id <= net'[j].id
                        /\ id = net'[j].id =>
                            \A seq \in DOMAIN items[id].found :
                                items[id].found[seq] => seq < net'[j].seq
      OBVIOUS
    <3>1. PICK i \in 1 .. Len(net) : net'[j] = net[i]
      BY <1>2
    <3>2. /\ id <= net[i].id
          /\ id = net[i].id =>
                \A seq \in DOMAIN items[id].found : items[id].found[seq] => seq < net[i].seq
      BY DEF OrderedInv, HeldInTurn
    <3> QED
      BY <3>1, <3>2
  <2> QED
    BY <1>1, <2>1 DEF OrderedInv, HeldInTurn, NoFrame, Garbage
<1>5. OutWhole'
  BY <1>1 DEF OrderedInv, OutWhole, Bytes, NoFrame, Garbage
<1>6. PiecesHeld'
  BY <1>1 DEF OrderedInv, PiecesHeld, Frames, NoFrame, Garbage
<1>7. ReceivedIsHandedOver'
  BY <1>1 DEF OrderedInv, ReceivedIsHandedOver, Frames
<1> QED
  BY <1>3, <1>4, <1>5, <1>6, <1>7 DEF OrderedInv

\* The first datagram in flight received: its frame is the last that any piece
\* was received of.  When that frame is complete it is handed over, and nothing
\* is left in the mapper whatever getFrame reads from freed memory.
LEMMA ReceiveOrdered ==
    ASSUME UdpInv, OrderedInv, OrderedNetwork,
           NEW k \in 1 .. Len(net), NEW again \in BOOLEAN, Receive(k, again)
    PROVE  OrderedInv' /\ (out' = out \/ out'.id = net[1].id)
<1> USE UdpAssumption DEF UdpAssumption
<1>1. k = 1 /\ again = FALSE
  BY DEF Receive, OrderedNetwork
<1> DEFINE d == net[1]
           held == Added(d)
           pieces == unused \cup {<<d.id, d.size, d.seq>>}
           c == IF d.id \in DOMAIN items THEN items[d.id] ELSE EmptyCombiner
<1>2. TypeOK /\ InTurn /\ d \in Datagrams(sent) /\ net \in Seq(Datagrams(sent))
  <2>1. TypeOK /\ InTurn /\ net \in Seq(Datagrams(sent))
    BY DEF UdpInv, OrderedInv, PiecesInv
  <2>2. \A S : net \in Seq(S) => net[1] \in S
    BY ElementOfSeq, <1>1
  <2> HIDE DEF held, pieces, c
  <2> QED
    BY <2>1, <2>2
<1>3. UNCHANGED <<idSeq, sent>> /\ GetFrame(held, pieces)
  BY <1>1 DEF Receive
<1>4. /\ \A j \in 1 .. Len(net') : \E i \in 1 .. Len(net) : net'[j] = net[i]
      /\ \A i, j \in 1 .. Len(net') : i < j => Earlier(net'[i], net'[j])
      /\ \A j \in 1 .. Len(net') : Earlier(d, net'[j])
  BY <1>1, Remaining DEF Receive, Without
<1>5. /\ d.id \in 1 .. Len(sent) /\ sent[d.id] = [id |-> d.id, size |-> d.size]
      /\ d.size \in Size
      /\ d.seq \in 0 .. (Frames(d.size) - 1)
      /\ DOMAIN d.data = 0 .. (Length(d.size, d.seq) - 1)
  BY <1>2, IdIsNumber
<1>6. /\ Len(sent) \in Nat /\ d.id \in Nat
      /\ Frames(d.size) \in Nat /\ d.seq \in Nat
      /\ sent[d.id].size = d.size
      /\ out # NoFrame => out.id \in Nat /\ out.id < d.id
      /\ \A id \in DOMAIN items : id \in Nat /\ id <= d.id
      /\ \A n \in 1 .. Len(sent) : sent[n].id = n
  <2>1. Len(sent) \in Nat
    BY <1>2 DEF TypeOK
  <2>2. Frames(d.size) \in Nat
    BY <1>5, FramesFacts
  <2>3. 1 \in 1 .. Len(net)
    BY <1>1
  <2>4. d.id \in Nat /\ d.seq \in Nat /\ sent[d.id].size = d.size
    BY <2>1, <2>2, <1>5
  <2>5. out # NoFrame => out.id \in Nat /\ out.id < d.id
    BY <2>1, <2>3 DEF OrderedInv, InTurn, OutWhole
  <2>6. \A id \in DOMAIN items : id \in Nat /\ id <= d.id
    <3> SUFFICES ASSUME NEW id \in DOMAIN items PROVE id \in Nat /\ id <= d.id
      OBVIOUS
    <3>1. id \in 1 .. Len(sent) /\ \A j \in 1 .. Len(net) : id <= net[j].id
      BY DEF OrderedInv, HeldInTurn
    <3> QED
      BY <2>1, <2>3, <3>1
  <2>7. \A n \in 1 .. Len(sent) : sent[n].id = n
    BY DEF OrderedInv, InTurn
  <2> QED
    BY <2>1, <2>2, <2>4, <2>5, <2>6, <2>7
<1>7. \A id \in DOMAIN items :
          /\ id \in 1 .. Len(sent) /\ items[id].size = sent[id].size
          /\ out # NoFrame => out.id < id
          /\ items[id].bytes = [p \in DOMAIN items[id].bytes |-> items[id].bytes[p]]
          /\ id = d.id =>
                \A seq \in DOMAIN items[id].found : items[id].found[seq] => seq < d.seq
          /\ CombinerTyped(items[id]) /\ CombinerSound(id, items[id])
          /\ ~Complete(items[id])
  BY <1>1 DEF UdpInv, TypeOK, PiecesInv, NoneLeftComplete, OrderedInv, HeldInTurn
<1>8. \A piece \in unused :
          /\ piece[1] \in 1 .. Len(sent) /\ piece[2] = sent[piece[1]].size
          /\ piece[3] \in 0 .. (Frames(piece[2]) - 1)
          /\ IF piece[1] \in DOMAIN items THEN items[piece[1]].found[piece[3]]
                                          ELSE out # NoFrame /\ piece[1] <= out.id
          /\ piece[1] <= d.id
  BY <1>1 DEF OrderedInv, PiecesHeld, InTurn
\* The combiners with the datagram added.
<1>9. /\ DOMAIN held = DOMAIN items \cup {d.id}
      /\ \A id \in DOMAIN held : id # d.id => id \in DOMAIN items /\ held[id] = items[id]
      /\ held[d.id] = Accept(c, d)
  BY DEF Added
<1>10. c = EmptyCombiner \/ (CombinerTyped(c) /\ c.size = d.size /\ CombinerSound(d.id, c))
  BY <1>6, <1>7
<1>11. /\ CombinerTyped(held[d.id]) /\ CombinerSound(d.id, held[d.id])
       /\ held[d.id].size = d.size
       /\ DOMAIN held[d.id].found = 0 .. (Frames(d.size) - 1)
       /\ held[d.id].found[d.seq]
       /\ \A j \in 0 .. (Frames(d.size) - 1) :
             held[d.id].found[j] <=> j = d.seq \/ (c # EmptyCombiner /\ c.found[j])
       /\ held[d.id].bytes = [p \in DOMAIN held[d.id].bytes |-> held[d.id].bytes[p]]
  <2> HIDE DEF c, held, d
  <2>1. CombinerTyped(Accept(c, d)) /\ CombinerSound(d.id, Accept(c, d))
    BY <1>2, <1>10, AcceptSound
  <2> QED
    BY <2>1, <1>5, <1>9, <1>10, AcceptExact
<1>12. c # EmptyCombiner <=> d.id \in DOMAIN items
  <2>1. d.id \in DOMAIN items => items[d.id].size \in Size
    BY <1>7 DEF CombinerTyped
  <2>2. EmptyCombiner.size = 0
    BY DEF EmptyCombiner
  <2> HIDE DEF d
  <2> QED
    BY <2>1, <2>2
<1>13. \A j \in 0 .. (Frames(d.size) - 1) : held[d.id].found[j] => j <= d.seq
  <2>1. d.id \in DOMAIN items => DOMAIN items[d.id].found = 0 .. (Frames(d.size) - 1)
    <3> HIDE DEF d
    <3> SUFFICES ASSUME d.id \in DOMAIN items
                 PROVE  DOMAIN items[d.id].found = 0 .. (Frames(d.size) - 1)
      OBVIOUS
    <3>1. CombinerTyped(items[d.id]) /\ items[d.id].size = d.size
      BY <1>6, <1>7
    <3> QED
      BY <3>1 DEF CombinerTyped
  <2>2. d.id \in DOMAIN items =>
            \A j \in 0 .. (Frames(d.size) - 1) : items[d.id].found[j] => j < d.seq
    BY <2>1, <1>7
  <2> HIDE DEF held, d
  <2> QED
    BY <2>2, <1>6, <1>11, <1>12
<1>14. \A id \in DOMAIN held :
          /\ id \in 1 .. Len(sent) /\ held[id].size = sent[id].size
          /\ out # NoFrame => out.id < id
          /\ held[id].bytes = [p \in DOMAIN held[id].bytes |-> held[id].bytes[p]]
          /\ id <= d.id
  <2> SUFFICES ASSUME NEW id \in DOMAIN held
               PROVE  /\ id \in 1 .. Len(sent) /\ held[id].size = sent[id].size
                      /\ out # NoFrame => out.id < id
                      /\ held[id].bytes = [p \in DOMAIN held[id].bytes |-> held[id].bytes[p]]
                      /\ id <= d.id
    OBVIOUS
  <2> HIDE DEF held, c
  <2>1. CASE id = d.id
    BY <2>1, <1>5, <1>6, <1>11
  <2>2. CASE id # d.id
    BY <2>2, <1>6, <1>7, <1>9
  <2> QED
    BY <2>1, <2>2
<1>15. \A piece \in pieces :
          /\ piece[1] \in 1 .. Len(sent) /\ piece[2] = sent[piece[1]].size
          /\ piece[3] \in 0 .. (Frames(piece[2]) - 1)
          /\ IF piece[1] \in DOMAIN held THEN held[piece[1]].found[piece[3]]
                                         ELSE out # NoFrame /\ piece[1] <= out.id
          /\ piece[1] <= d.id
  <2> SUFFICES ASSUME NEW piece \in pieces
               PROVE  /\ piece[1] \in 1 .. Len(sent) /\ piece[2] = sent[piece[1]].size
                      /\ piece[3] \in 0 .. (Frames(piece[2]) - 1)
                      /\ IF piece[1] \in DOMAIN held THEN held[piece[1]].found[piece[3]]
                                                     ELSE out # NoFrame /\ piece[1] <= out.id
                      /\ piece[1] <= d.id
    OBVIOUS
  <2>1. CASE piece = <<d.id, d.size, d.seq>>
    <3>1. piece[1] = d.id /\ piece[2] = d.size /\ piece[3] = d.seq
      BY <2>1
    <3> HIDE DEF held, c, d
    <3> QED
      BY <3>1, <1>5, <1>6, <1>9, <1>11
  <2>2. CASE piece \in unused
    <3>1. CASE piece[1] = d.id
      <4>1. d.id \in DOMAIN items /\ items[d.id].found[piece[3]]
        BY <2>2, <3>1, <1>6, <1>8
      <4>2. piece[3] \in 0 .. (Frames(d.size) - 1) /\ piece[2] = d.size
        BY <2>2, <3>1, <1>6, <1>8
      <4> HIDE DEF held
      <4>3. held[d.id].found[piece[3]]
        BY <4>1, <4>2, <1>11, <1>12
      <4> QED
        BY <2>2, <3>1, <4>2, <4>3, <1>8, <1>9
    <3>2. CASE piece[1] # d.id
      <4> HIDE DEF held, c, d
      <4> QED
        BY <2>2, <3>2, <1>8, <1>9
    <3> QED
      BY <3>1, <3>2
  <2> QED
    BY <2>1, <2>2
<1>16. \A j \in 1 .. Len(net') :
          /\ net'[j] \in Datagrams(sent)
          /\ net'[j].id \in 1 .. Len(sent)
          /\ net'[j].seq \in 0 .. (Frames(net'[j].size) - 1)
          /\ net'[j].size = sent[net'[j].id].size
          /\ d.id <= net'[j].id
          /\ d.id = net'[j].id => d.seq < net'[j].seq
          /\ out # NoFrame => out.id < net'[j].id
  <2> SUFFICES ASSUME NEW j \in 1 .. Len(net')
               PROVE  /\ net'[j] \in Datagrams(sent)
                      /\ net'[j].id \in 1 .. Len(sent)
                      /\ net'[j].seq \in 0 .. (Frames(net'[j].size) - 1)
                      /\ net'[j].size = sent[net'[j].id].size
                      /\ d.id <= net'[j].id
                      /\ d.id = net'[j].id => d.seq < net'[j].seq
                      /\ out # NoFrame => out.id < net'[j].id
    OBVIOUS
  <2>1. PICK i \in 1 .. Len(net) : net'[j] = net[i]
    BY <1>4
  <2>2. net[i] \in Datagrams(sent)
    BY <1>2, ElementOfSeq
  <2>3. /\ net[i].id \in 1 .. Len(sent) /\ sent[net[i].id] = [id |-> net[i].id, size |-> net[i].size]
        /\ net[i].seq \in 0 .. (Frames(net[i].size) - 1)
    BY <1>2, <2>2, IdIsNumber
  <2>4. Earlier(d, net[i]) /\ (out # NoFrame => out.id < net[i].id)
    BY <1>2, <1>4, <2>1 DEF InTurn
  <2> HIDE DEF d
  <2> QED
    BY <2>1, <2>2, <2>3, <2>4, <1>6 DEF Earlier
<1> DEFINE Waits == /\ \A id \in DOMAIN held : ~Complete(held[id])
                    /\ items' = held /\ UNCHANGED out /\ unused' = pieces
           Hands(freed) == /\ Complete(held[d.id]) /\ freed >= d.id
                           /\ items' = KeepOver(held, freed)
                           /\ out' = [id |-> d.id, bytes |-> held[d.id].bytes]
                           /\ unused' = {piece \in pieces : piece[1] # d.id}
<1>17. Waits \/ \E freed \in Id : Hands(freed)
  <2>1. \A id \in DOMAIN held : Complete(held[id]) => id = d.id
    BY <1>7, <1>9
  <2> HIDE DEF held, pieces, c, d
  <2> QED
    BY <1>3, <2>1 DEF GetFrame
<1>18. CASE Waits
  <2>1. /\ \A id \in DOMAIN held : ~Complete(held[id])
        /\ items' = held /\ out' = out /\ unused' = pieces
    BY <1>18
  <2> HIDE DEF held, pieces, c, d
  <2>2. InTurn'
    <3>1. \A j \in 1 .. Len(net') :
              /\ \A piece \in pieces : piece[1] <= net'[j].id
              /\ out # NoFrame => out.id < net'[j].id
      <4>1. \A piece \in pieces : piece[1] \in Int /\ piece[1] <= d.id
        BY <1>15
      <4>2. \A j \in 1 .. Len(net') : net'[j].id \in Int /\ d.id <= net'[j].id
        BY <1>16
      <4>3. \A j \in 1 .. Len(net') : out # NoFrame => out.id < net'[j].id
        BY <1>16
      <4> QED
        BY <4>1, <4>2, <4>3, <1>6
    <3> QED
      BY <3>1, <2>1, <1>2, <1>3, <1>4 DEF InTurn, Earlier, NoFrame, Garbage
  <2>3. HeldInTurn'
    <3>1. \A id \in DOMAIN held : \A j \in 1 .. Len(net') :
              /\ id <= net'[j].id
              /\ id = net'[j].id =>
                  \A seq \in DOMAIN held[id].found : held[id].found[seq] => seq < net'[j].seq
      <4> SUFFICES ASSUME NEW id \in DOMAIN held, NEW j \in 1 .. Len(net')
                   PROVE  /\ id <= net'[j].id
                          /\ id = net'[j].id => \A seq \in DOMAIN held[id].found :
                                held[id].found[seq] => seq < net'[j].seq
        OBVIOUS
      <4>0. /\ id \in Nat /\ id <= d.id /\ d.id \in Nat
            /\ net'[j].id \in Nat /\ d.id <= net'[j].id
        <5>1. id \in 1 .. Len(sent) /\ id <= d.id
          BY <1>14
        <5>2. net'[j].id \in 1 .. Len(sent) /\ d.id <= net'[j].id
          BY <1>16
        <5> QED
          BY <5>1, <5>2, <1>6
      <4>1. id <= net'[j].id
        BY <4>0
      <4>2. ASSUME id = net'[j].id, NEW seq \in DOMAIN held[id].found, held[id].found[seq]
            PROVE  seq < net'[j].seq
        <5>1. id = d.id
          BY <4>2, <4>0
        <5>2. seq \in 0 .. (Frames(d.size) - 1) /\ seq <= d.seq
          BY <4>2, <5>1, <1>11, <1>13
        <5>3. d.seq < net'[j].seq /\ net'[j].size = d.size
          BY <4>2, <5>1, <1>6, <1>16
        <5>4. net'[j].seq \in 0 .. (Frames(d.size) - 1)
          BY <5>3, <1>16
        <5> QED
          BY <5>2, <5>3, <5>4, <1>6
      <4> QED
        BY <4>1, <4>2
    <3> QED
      BY <3>1, <2>1, <1>3, <1>14 DEF HeldInTurn, NoFrame, Garbage
  <2>4. OutWhole'
    BY <2>1, <1>3 DEF OrderedInv, OutWhole, Bytes, NoFrame, Garbage
  <2>5. PiecesHeld'
    BY <2>1, <1>3, <1>15 DEF PiecesHeld, Frames, NoFrame, Garbage
  <2>6. ReceivedIsHandedOver'
    <3> SUFFICES ASSUME NEW n \in 1 .. Len(sent)
                 PROVE  \E seq \in 0 .. (Frames(sent[n].size) - 1) :
                           <<sent[n].id, sent[n].size, seq>> \notin pieces
      BY <2>1, <1>3 DEF ReceivedIsHandedOver, Frames
    <3>1. CASE n = d.id
      <4>1. PICK seq \in 0 .. (Frames(d.size) - 1) : ~held[d.id].found[seq]
        BY <2>1, <1>9, <1>11 DEF Complete
      <4>2. ASSUME <<d.id, d.size, seq>> \in pieces PROVE FALSE
        <5>1. held[<<d.id, d.size, seq>>[1]].found[<<d.id, d.size, seq>>[3]]
          BY <4>2, <1>9, <1>15
        <5> QED
          BY <4>1, <5>1
      <4> QED
        BY <3>1, <4>1, <4>2, <1>6
    <3>2. CASE n # d.id
      <4>1. PICK seq \in 0 .. (Frames(sent[n].size) - 1) :
                <<sent[n].id, sent[n].size, seq>> \notin unused
        BY DEF OrderedInv, ReceivedIsHandedOver
      <4>2. sent[n].id # d.id
        BY <3>2, <1>6
      <4> QED
        BY <4>1, <4>2 DEF pieces
    <3> QED
      BY <3>1, <3>2
  <2> QED
    BY <2>1, <2>2, <2>3, <2>4, <2>5, <2>6 DEF OrderedInv
<1>19. ASSUME NEW freed \in Id, Hands(freed)
       PROVE  OrderedInv' /\ out'.id = d.id
  <2>1. /\ Complete(held[d.id]) /\ freed >= d.id
        /\ items' = KeepOver(held, freed)
        /\ out' = [id |-> d.id, bytes |-> held[d.id].bytes]
        /\ unused' = {piece \in pieces : piece[1] # d.id}
    BY <1>19
  <2> HIDE DEF held, pieces, c, d
  <2>2. DOMAIN items' = {}
    <3>1. freed \in Int /\ \A id \in DOMAIN held : id \in Int /\ ~(id > freed)
      <4>1. freed \in Int /\ d.id \in Int /\ freed >= d.id
        <5>1. \A i \in Id : i \in Int
          BY DEF Id
        <5>2. freed \in Int
          BY <1>19, <5>1
        <5>3. d.id \in Int
          BY <1>6
        <5> QED
          BY <2>1, <5>2, <5>3
      <4>2. \A id \in DOMAIN held : id \in Int /\ id <= d.id
        BY <1>6, <1>9
      <4> QED
        BY <4>1, <4>2
    <3> QED
      BY <2>1, <3>1 DEF KeepOver
  <2>3. out'.id = d.id /\ out'.bytes = held[d.id].bytes
    BY <2>1
  <2>4. \A j \in 1 .. Len(net') : d.id < net'[j].id
    <3> SUFFICES ASSUME NEW j \in 1 .. Len(net'), ~(d.id < net'[j].id) PROVE FALSE
      OBVIOUS
    <3>1. d.id = net'[j].id
      BY <1>6, <1>16
    <3>2. d.seq < net'[j].seq /\ net'[j].size = d.size
      BY <3>1, <1>6, <1>16
    <3>3. net'[j].seq \in 0 .. (Frames(d.size) - 1)
      BY <3>2, <1>16
    <3>4. held[d.id].found[net'[j].seq]
      BY <3>3, <2>1, <1>11 DEF Complete
    <3>5. net'[j].seq <= d.seq
      BY <3>3, <3>4, <1>13
    <3> QED
      BY <3>2, <3>3, <3>5, <1>6
  <2>5. InTurn'
    <3>1. \A j \in 1 .. Len(net') : \A piece \in pieces : piece[1] <= net'[j].id
      <4>1. \A piece \in pieces : piece[1] \in Int /\ piece[1] <= d.id
        BY <1>15
      <4>2. \A j \in 1 .. Len(net') : net'[j].id \in Int /\ d.id <= net'[j].id
        BY <1>16
      <4> QED
        BY <4>1, <4>2, <1>6
    <3> QED
      BY <3>1, <2>1, <2>3, <2>4, <1>2, <1>3, <1>4 DEF InTurn, Earlier, NoFrame, Garbage
  <2>6. HeldInTurn'
    BY <2>2 DEF HeldInTurn
  <2>7. OutWhole'
    <3>1. held[d.id].bytes = [p \in 0 .. (d.size - 1) |-> <<d.id, p>>]
      <4>1. DOMAIN held[d.id].bytes = 0 .. (d.size - 1)
        BY <1>11 DEF CombinerTyped
      <4>2. ASSUME NEW p \in 0 .. (d.size - 1) PROVE held[d.id].bytes[p] = <<d.id, p>>
        <5>1. p \div FragmentSize \in DOMAIN held[d.id].found
          BY <1>5, <1>11, PlaceFacts
        <5>2. held[d.id].found[p \div FragmentSize]
          BY <5>1, <2>1 DEF Complete
        <5>3. Genuine(d.id, d.size, p, held[d.id].bytes[p])
          BY <4>1, <5>2, <1>11 DEF CombinerSound
        <5>4. PICK n \in 1 .. Len(sent) :
                  sent[n] = [id |-> d.id, size |-> d.size] /\ held[d.id].bytes[p] = <<n, p>>
          BY <5>3 DEF Genuine
        <5>5. n = d.id
          BY <5>4, <1>6
        <5> QED
          BY <5>4, <5>5
      <4> QED
        BY <4>1, <4>2, <1>11
    <3>2. out' = [id |-> d.id, bytes |-> [p \in 0 .. (sent'[d.id].size - 1) |-> <<d.id, p>>]]
      BY <3>1, <2>1, <1>3, <1>6
    <3> QED
      BY <3>2, <2>3, <1>3, <1>5 DEF OutWhole, Bytes
  <2>8. PiecesHeld'
    <3>1. out' # NoFrame
      BY <2>3, <1>6 DEF NoFrame
    <3>2. \A piece \in unused' :
              /\ piece[1] \in 1 .. Len(sent) /\ piece[2] = sent[piece[1]].size
              /\ piece[3] \in 0 .. (Frames(piece[2]) - 1)
              /\ piece[1] <= out'.id
      BY <2>1, <2>3, <1>15
    <3> QED
      BY <3>1, <3>2, <2>2, <1>3 DEF PiecesHeld, Frames, NoFrame, Garbage
  <2>9. ReceivedIsHandedOver'
    <3> SUFFICES ASSUME NEW n \in 1 .. Len(sent)
                 PROVE  \E seq \in 0 .. (Frames(sent[n].size) - 1) :
                           <<sent[n].id, sent[n].size, seq>> \notin unused'
      BY <1>3 DEF ReceivedIsHandedOver, Frames
    <3>1. CASE n = d.id
      <4>1. <<sent[n].id, sent[n].size, d.seq>> \notin unused'
        <5>1. <<sent[n].id, sent[n].size, d.seq>>[1] = d.id
          BY <3>1, <1>6
        <5> QED
          BY <5>1, <2>1
      <4> QED
        BY <3>1, <4>1, <1>5, <1>6
    <3>2. CASE n # d.id
      <4>1. PICK seq \in 0 .. (Frames(sent[n].size) - 1) :
                <<sent[n].id, sent[n].size, seq>> \notin unused
        BY DEF OrderedInv, ReceivedIsHandedOver
      <4>2. sent[n].id # d.id
        BY <3>2, <1>6
      <4> QED
        BY <4>1, <4>2, <2>1 DEF pieces
    <3> QED
      BY <3>1, <3>2
  <2> QED
    BY <2>3, <2>5, <2>6, <2>7, <2>8, <2>9 DEF OrderedInv
<1> HIDE DEF Waits, Hands, d
<1>20. Waits => out' = out
  BY DEF Waits
<1> QED
  BY <1>17, <1>18, <1>19, <1>20 DEF d

-----------------------------------------------------------------------------
(* The transport is the channel.                                           *)

\* Every step of the transport keeps what the order of the network gives it.
LEMMA OrderedCorrect ==
    ASSUME OrderedNetwork
    PROVE  Spec => []OrderedInv
<1>1. ASSUME UdpInv, OrderedInv, [Next]_vars PROVE OrderedInv'
  <2>1. CASE \E size \in Size : Send(size)
    BY <1>1, <2>1, SendOrdered
  <2>2. CASE Restart
    BY <2>2 DEF Restart, OrderedNetwork
  <2>3. CASE \E k \in 1 .. Len(net), again \in BOOLEAN : Receive(k, again)
    BY <1>1, <2>3, ReceiveOrdered
  <2>4. CASE \E k \in 1 .. Len(net) : Lose(k)
    BY <1>1, <2>4, LoseOrdered
  <2>5. CASE UNCHANGED vars
    <3>1. UNCHANGED <<idSeq, net, items, out, sent, unused>>
      BY <2>5 DEF vars
    <3>2. InTurn' /\ HeldInTurn'
      BY <1>1, <3>1 DEF OrderedInv, InTurn, HeldInTurn, Earlier, NoFrame, Garbage
    <3>3. OutWhole'
      BY <1>1, <3>1 DEF OrderedInv, OutWhole, Bytes, NoFrame, Garbage
    <3>4. PiecesHeld'
      BY <1>1, <3>1 DEF OrderedInv, PiecesHeld, Frames, NoFrame, Garbage
    <3>5. ReceivedIsHandedOver'
      BY <1>1, <3>1 DEF OrderedInv, ReceivedIsHandedOver, Frames
    <3> QED
      BY <3>2, <3>3, <3>4, <3>5 DEF OrderedInv
  <2> QED
    BY <1>1, <2>1, <2>2, <2>3, <2>4, <2>5 DEF Next
<1> QED
  BY <1>1, InitOrdered, UdpCorrect, PTL DEF Spec

\* The number of the frame handed over is its id.
LastId == IF out = NoFrame THEN 0 ELSE out.id

\* In the ordered collector the last frame handed over is the one LastId names.
LEMMA HandedIsId == OrderedInv => Handed = LastId
<1> SUFFICES ASSUME OrderedInv PROVE Handed = LastId
  OBVIOUS
<1>1. CASE out = NoFrame
  BY <1>1 DEF Handed, LastId
<1>2. CASE out # NoFrame
  <2>1. /\ out.id \in 1 .. Len(sent)
        /\ out = [id |-> out.id, bytes |-> Bytes(out.id)]
        /\ \A n \in 1 .. Len(sent) : sent[n].id = n
    BY <1>2 DEF OrderedInv, OutWhole, InTurn
  <2>2. \A n \in 1 .. Len(sent) : out = [id |-> sent[n].id, bytes |-> Bytes(n)] <=> n = out.id
    BY <2>1
  <2> QED
    BY <1>2, <2>1, <2>2 DEF Handed, LastId
<1> QED
  BY <1>1, <1>2

\* A network that does no more than lose datagrams makes the transport the channel
\* the code above it expects: frames are handed over whole and in the order they
\* were sent, each at most once.
THEOREM Implements ==
    ASSUME OrderedNetwork
    PROVE  Spec => InOrder
<1>1. Init => Channel!Init
  BY DEF Init, Channel!Init, Handed
<1>2. (OrderedInv => Handed = LastId)'
  BY HandedIsId, PTL
<1>3. ASSUME UdpInv, OrderedInv, OrderedInv', [Next]_vars
      PROVE  [Channel!Send \/ Channel!Deliver]_<<Len(sent), Handed>>
  <2>1. /\ Handed = IF out = NoFrame THEN 0 ELSE out.id
        /\ Handed' = IF out' = NoFrame THEN 0 ELSE out'.id
    BY <1>3, <1>2, HandedIsId DEF LastId, NoFrame, Garbage
  <2>2. CASE \E size \in Size : Send(size)
    <3>1. out' = out /\ Len(sent') = Len(sent) + 1
      BY <1>3, <2>2 DEF Send, UdpInv, TypeOK
    <3> QED
      BY <2>1, <3>1 DEF Channel!Send
  <2>3. CASE Restart
    BY <2>3 DEF Restart, OrderedNetwork
  <2>4. ASSUME NEW k \in 1 .. Len(net), NEW again \in BOOLEAN, Receive(k, again)
        PROVE  [Channel!Send \/ Channel!Deliver]_<<Len(sent), Handed>>
    <3>1. UNCHANGED sent /\ (out' = out \/ out'.id = net[1].id)
      BY <1>3, <2>4, ReceiveOrdered DEF Receive
    <3>2. CASE out' = out
      BY <2>1, <3>1, <3>2
    <3>3. CASE out' # out /\ out' # NoFrame
      <4>1. out'.id \in 1 .. Len(sent) /\ Len(sent) \in Nat
        BY <1>3, <3>1, <3>3 DEF OrderedInv, OutWhole, NoFrame, Garbage, UdpInv, TypeOK
      <4>2. out # NoFrame => out.id \in 1 .. Len(sent) /\ out.id < out'.id
        <5>1. 1 \in 1 .. Len(net)
          BY <2>4
        <5> QED
          BY <1>3, <3>1, <3>3, <5>1 DEF OrderedInv, OutWhole, InTurn
      <4>3. Handed' \in (Handed + 1) .. Len(sent)
        BY <2>1, <3>3, <4>1, <4>2
      <4> QED
        BY <3>1, <4>3 DEF Channel!Deliver
    <3>4. CASE out' # out /\ out' = NoFrame
      <4>1. out'.id = net[1].id /\ out'.id = -1
        BY <3>1, <3>4 DEF NoFrame
      <4>2. net[1].id \in Id
        BY <1>3, <2>4 DEF UdpInv, TypeOK
      <4> QED
        BY <4>1, <4>2, UdpAssumption DEF Id, UdpAssumption
    <3> QED
      BY <3>2, <3>3, <3>4
  <2>5. CASE \E k \in 1 .. Len(net) : Lose(k)
    BY <2>1, <2>5 DEF Lose
  <2>6. CASE UNCHANGED vars
    BY <2>1, <2>6 DEF vars
  <2> QED
    BY <1>3, <2>2, <2>3, <2>4, <2>5, <2>6 DEF Next
<1> QED
  BY <1>1, <1>3, UdpCorrect, OrderedCorrect, PTL DEF Spec, InOrder, Channel!Spec

\* Over such a network a frame all of whose datagrams were received was handed
\* over, whatever getFrame reads from the memory it has freed.
THEOREM ReceivedHandedOver ==
    ASSUME OrderedNetwork
    PROVE  Spec => []ReceivedIsHandedOver
BY OrderedCorrect, PTL DEF OrderedInv

=============================================================================
