---------------------------- MODULE PluginProofs -----------------------------
(***************************************************************************)
(* Proofs about the parts of MCPlugins: the Maya node's one block of       *)
(* storage, the sockets the MotionBuilder device has open, the rows of its *)
(* layout, the trees FbxStream's loader makes of a scene, for any number   *)
(* of packets, addresses, clients, models and nodes; and that the parts,   *)
(* side by side, do as each does alone, and have their types.              *)
(***************************************************************************)
EXTENDS MCPlugins, ParserProofs, ListProofs, Induction, TLAPS, SequenceTheorems,
        FiniteSetTheorems

-----------------------------------------------------------------------------
(* The Maya node.                                                          *)

\* Where the one block is, and that packets in the queue are not older than
\* the one shown, nor the packet that is about to be passed than those.
MayaInv ==
    /\ packets \in Nat /\ buffer \in Nat /\ shown \in Nat
    /\ freeBlocks \in Nat /\ lost \in Nat /\ queue \in Seq(Nat)
    /\ freeBlocks + Len(queue) + lost = 1
    /\ shown <= packets
    /\ thread = "pass" => buffer \in {0, packets}
    /\ \A i \in DOMAIN queue : queue[i] # 0 => shown <= queue[i] /\ queue[i] <= packets

\* MayaInv holds of a node just made.
LEMMA MayaInitial == MayaInit => MayaInv
BY DEF MayaInit, MayaInv

\* A push of nothing or of the last packet read.
LEMMA PushSound ==
    ASSUME MayaInv, NEW message \in {0, packets}, Push(message),
           UNCHANGED <<packets, shown>>, buffer' = buffer, thread' # "pass"
    PROVE  MayaInv'
BY SMT DEF MayaInv, Push

\* An evaluation of the node keeps MayaInv.
LEMMA ComputeSound == MayaInv /\ (compute \/ ComputeNoSubject) => MayaInv'
BY SMT DEF MayaInv, compute, ComputeNoSubject, device

\* Every step of Maya and of the node's thread keeps MayaInv.
LEMMA MayaStep == MayaInv /\ [MayaNext]_mayaVars => MayaInv'
<1> SUFFICES ASSUME MayaInv, [MayaNext]_mayaVars PROVE MayaInv'
  OBVIOUS
<1> USE DEF device, storage, outputs
<1>1. CASE SetLive
  BY <1>1 DEF SetLive, MayaInv
<1>2. CASE threadShutdownHandler
  BY <1>2 DEF threadShutdownHandler, MayaInv
<1>3. CASE ThreadBegins
  BY <1>3 DEF ThreadBegins, MayaInv
<1>4. CASE GoLive
  BY <1>4 DEF GoLive, MayaInv
<1>5. CASE Read
  BY <1>5 DEF Read, MayaInv
<1>6. CASE LeaveInner
  BY <1>6 DEF LeaveInner, MayaInv
<1>7. CASE passMessage
  BY <1>7, PushSound DEF passMessage, MayaInv
<1>8. CASE ThreadEnds
  BY <1>8, PushSound DEF ThreadEnds, MayaInv
<1>9. CASE compute \/ ComputeNoSubject
  BY <1>9, ComputeSound
<1>10. CASE UNCHANGED mayaVars
  BY <1>10 DEF mayaVars, MayaInv
<1> QED
  BY <1>1, <1>2, <1>3, <1>4, <1>5, <1>6, <1>7, <1>8, <1>9, <1>10 DEF MayaNext

\* What LostBlockIsDeaf says of a step: what is shown gets no older, and once the
\* block is lost nothing is passed or shown.
MayaSays == shown' >= shown /\ (lost > 0 => shown' = shown /\ queue' = <<>>)

\* A step from a state of MayaInv does what the node's action property says.
LEMMA MayaHolds == MayaInv /\ [MayaNext]_mayaVars => MayaSays
<1> SUFFICES ASSUME MayaInv, [MayaNext]_mayaVars PROVE MayaSays
  OBVIOUS
<1>1. lost > 0 => freeBlocks = 0 /\ queue = <<>>
  BY SMT DEF MayaInv
<1>2. CASE compute \/ ComputeNoSubject
  BY <1>1, <1>2, SMT DEF compute, ComputeNoSubject, MayaInv, MayaSays
<1>3. CASE UNCHANGED <<shown, lost, freeBlocks, queue>>
  BY <1>1, <1>3 DEF MayaInv, MayaSays
<1>4. ASSUME NEW m, Push(m), UNCHANGED shown PROVE MayaSays
  BY <1>1, <1>4 DEF Push, MayaInv, MayaSays
<1> QED
  BY <1>2, <1>3, <1>4 DEF MayaNext, mayaVars, device, storage, outputs, SetLive, threadShutdownHandler,
     ThreadBegins, GoLive, Read, LeaveInner, passMessage, ThreadEnds

\* However many packets come, and whenever the node is made live or told to end:
\* once compute has lost the node's one block, nothing is ever shown again, and
\* before that packets are shown in the order they were read.
THEOREM DeafForGood == MayaSpec => LostBlockIsDeaf
<1>1. MayaInv /\ [MayaNext]_mayaVars => [MayaSays]_mayaVars
  BY MayaHolds
<1> QED
  BY <1>1, MayaInitial, MayaStep, PTL DEF MayaSpec, LostBlockIsDeaf, MayaSays

\* Where the thread is, and how many packets it may have read.
ThreadTyped ==
    /\ live \in BOOLEAN /\ done \in BOOLEAN /\ mConnector \in BOOLEAN /\ crashed \in BOOLEAN
    /\ thread \in {"new", "outer", "inner", "pass", "finished"}
    /\ packets \in 0 .. MaxPackets /\ buffer \in 0 .. packets

\* The thread's state is typed before it runs.
LEMMA ThreadInitial == MayaInit => ThreadTyped
<1> SUFFICES ASSUME MayaInit PROVE ThreadTyped
  OBVIOUS
<1>1. live = FALSE /\ done = FALSE /\ mConnector = FALSE /\ crashed = FALSE /\ thread = "new"
  BY DEF MayaInit
<1>2. packets = 0 /\ buffer = 0
  BY DEF MayaInit
<1>3. packets \in 0 .. MaxPackets /\ buffer \in 0 .. packets
  BY <1>2, MayaAssumption
<1> QED
  BY <1>1, <1>3 DEF ThreadTyped

\* Every step keeps the thread's types.
LEMMA ThreadStep == ThreadTyped /\ [MayaNext]_mayaVars => ThreadTyped'
<1> SUFFICES ASSUME ThreadTyped, [MayaNext]_mayaVars PROVE ThreadTyped'
  OBVIOUS
<1>1. live' \in BOOLEAN /\ done' \in BOOLEAN /\ mConnector' \in BOOLEAN /\ crashed' \in BOOLEAN
  <2>1. /\ live' \in {live, ~live} /\ done' \in {done, TRUE, FALSE}
        /\ mConnector' \in {mConnector, TRUE, FALSE} /\ crashed' \in {crashed, TRUE}
    BY DEF MayaNext, mayaVars, device, storage, outputs, SetLive, threadShutdownHandler, ThreadBegins,
       GoLive, Read, LeaveInner, passMessage, ThreadEnds, compute, ComputeNoSubject
  <2> QED
    BY <2>1 DEF ThreadTyped
<1>2. thread' \in {"new", "outer", "inner", "pass", "finished"}
  BY DEF ThreadTyped, MayaNext, mayaVars, device, storage, SetLive, threadShutdownHandler,
     ThreadBegins, GoLive, Read, LeaveInner, passMessage, ThreadEnds, compute, ComputeNoSubject
<1>3. packets' \in 0 .. MaxPackets /\ buffer' \in 0 .. packets'
  <2>1. CASE Read
    BY <2>1, MayaAssumption DEF ThreadTyped, Read
  <2>2. ~Read => UNCHANGED <<packets, buffer>>
    BY DEF MayaNext, mayaVars, device, storage, outputs, SetLive, threadShutdownHandler, ThreadBegins,
       GoLive, LeaveInner, passMessage, ThreadEnds, compute, ComputeNoSubject
  <2> QED
    BY <2>1, <2>2 DEF ThreadTyped
<1> QED
  BY <1>1, <1>2, <1>3 DEF ThreadTyped

\* The node's one block is always free, in the queue or lost, and what is in the
\* thread's hand and what is shown was read.
THEOREM MayaTyped == MayaSpec => []MayaTypeOK
<1>1. MayaInv /\ ThreadTyped => MayaTypeOK
  <2> SUFFICES ASSUME MayaInv, ThreadTyped PROVE MayaTypeOK
    OBVIOUS
  <2>1. shown \in 0 .. packets /\ freeBlocks + Len(queue) + lost = 1
    BY DEF MayaInv
  <2> QED
    BY <2>1 DEF ThreadTyped, MayaTypeOK
<1> QED
  BY <1>1, MayaInitial, MayaStep, ThreadInitial, ThreadStep, PTL DEF MayaSpec

-----------------------------------------------------------------------------
(* Sockets.                                                                *)

\* What is left of a sequence without its i-th element.
LEMMA RemoveAtFacts ==
    ASSUME NEW S, NEW s \in Seq(S), NEW i \in 1 .. Len(s)
    PROVE  /\ RemoveAt(s, i) \in Seq(S)
           /\ Len(RemoveAt(s, i)) = Len(s) - 1
           /\ \A j \in 1 .. Len(s) - 1 : RemoveAt(s, i)[j] = IF j < i THEN s[j] ELSE s[j + 1]
<1> DEFINE before == SubSeq(s, 1, i - 1)  after == SubSeq(s, i + 1, Len(s))
<1>1. /\ before \in Seq(S) /\ Len(before) = i - 1
      /\ \A j \in 1 .. i - 1 : before[j] = s[j]
  BY SMT
<1>2. /\ after \in Seq(S) /\ Len(after) = Len(s) - i
      /\ \A j \in 1 .. Len(s) - i : after[j] = s[i + j]
  BY SMT
<1>3. /\ before \o after \in Seq(S) /\ Len(before \o after) = Len(s) - 1
      /\ \A j \in 1 .. Len(s) - 1 :
            (before \o after)[j] = IF j <= i - 1 THEN before[j] ELSE after[j - (i - 1)]
  <2>0. Len(s) \in Nat
    BY LenProperties
  <2> HIDE DEF before, after
  <2>1. Len(before) + Len(after) = Len(s) - 1
    BY <1>1, <1>2, <2>0
  <2>2. /\ before \o after \in Seq(S) /\ Len(before \o after) = Len(before) + Len(after)
        /\ \A j \in 1 .. Len(before) + Len(after) :
              (before \o after)[j] = IF j <= Len(before) THEN before[j] ELSE after[j - Len(before)]
    BY <1>1, <1>2, ConcatProperties
  <2> QED
    BY <1>1, <2>1, <2>2
<1>4. RemoveAt(s, i) = before \o after
  BY DEF RemoveAt
<1> HIDE DEF before, after
<1>5. ASSUME NEW j \in 1 .. Len(s) - 1
      PROVE  (before \o after)[j] = IF j < i THEN s[j] ELSE s[j + 1]
  <2>1. Len(s) \in Nat
    BY LenProperties
  <2>2. CASE j < i
    BY <1>1, <1>3, <2>1, <2>2
  <2>3. CASE j >= i
    <3>1. j - (i - 1) \in 1 .. Len(s) - i /\ i + (j - (i - 1)) = j + 1
      BY <2>1, <2>3
    <3> QED
      BY <1>2, <1>3, <2>1, <2>3, <3>1
  <2>4. j < i \/ j >= i
    BY <2>1
  <2> QED
    BY <2>2, <2>3, <2>4
<1> QED
  BY <1>3, <1>4, <1>5

\* The elements of a sequence.
LEMMA ToSetFacts ==
    ASSUME NEW S, NEW s \in Seq(S)
    PROVE  /\ Len(s) \in Nat
           /\ DOMAIN s = 1 .. Len(s)
           /\ \A x : x \in ToSet(s) <=> \E i \in 1 .. Len(s) : s[i] = x
BY LenProperties DEF ToSet

Unrepeated(s) == \A i, j \in 1 .. Len(s) : s[i] = s[j] => i = j

\* A sequence without repetition has as many elements as it is long.
LEMMA DistinctCount ==
    ASSUME NEW S, NEW s \in Seq(S), Unrepeated(s)
    PROVE  Cardinality(ToSet(s)) = Len(s)
<1>1. s \in Bijection(1 .. Len(s), ToSet(s))
  BY DEF Unrepeated, ToSet, Bijection, Injection, Surjection, IsInjective
<1>2. IsFiniteSet(1 .. Len(s)) /\ Cardinality(1 .. Len(s)) = Len(s)
  <2>1. Len(s) \in Nat /\ 1 \in Int
    BY LenProperties
  <2>2. /\ IsFiniteSet(1 .. Len(s))
        /\ Cardinality(1 .. Len(s)) = IF 1 > Len(s) THEN 0 ELSE Len(s) - 1 + 1
    BY <2>1, FS_Interval, SMTT(30)
  <2> QED
    BY <2>1, <2>2
<1> QED
  BY <1>1, <1>2, FS_Bijection DEF ExistsBijection

\* What the process has open that the object and the device do not know.
Leaked == openSocks \ ({m_socket} \cup ToSet(mClients))

\* Sockets are numbered, the device's clients are sockets of their own, and each
\* Connect that threw has left one more behind.
SockInv ==
    /\ made \in Nat /\ failures \in Nat /\ openSocks \subseteq 1 .. made
    /\ m_socket \in {SocketNull, InvalidSocket} \cup openSocks
    /\ current # 0 => m_socket \in openSocks
    /\ mClients \in Seq(Nat) /\ Unrepeated(mClients)
    /\ ToSet(mClients) \subseteq openSocks \ {m_socket}
    /\ Cardinality(Leaked) = failures

\* SockInv holds before a socket is made.
LEMMA SockInitial == SockInit => SockInv
<1> SUFFICES ASSUME SockInit PROVE SockInv
  OBVIOUS
<1>1. Leaked = {} /\ ToSet(mClients) = {} /\ Unrepeated(mClients)
  BY DEF SockInit, Leaked, ToSet, Unrepeated
<1> QED
  BY <1>1, FS_EmptySet DEF SockInit, SockInv, SocketNull

\* The object's socket may be replaced by one that is new or by none, when it is
\* closed: nothing else is touched.
LEMMA ReplaceSound ==
    ASSUME SockInv, made' \in {made, made + 1}, current = 0, current' = 0,
           UNCHANGED <<failures, mClients>>,
           \/ m_socket' = made + 1 /\ made' = made + 1 /\ openSocks' = Kept \cup {m_socket'}
           \/ m_socket' \in {SocketNull, InvalidSocket} /\ openSocks' = Kept
    PROVE  SockInv'
<1>1. Leaked' = Leaked
  BY DEF SockInv, Leaked, Kept, SocketNull, InvalidSocket
<1>2. ToSet(mClients)' = ToSet(mClients) /\ Unrepeated(mClients)'
  BY DEF SockInv
<1>3. made' \in Nat /\ failures' \in Nat /\ mClients' \in Seq(Nat)
  BY DEF SockInv
<1>4. /\ openSocks' \subseteq 1 .. made'
      /\ m_socket' \in {SocketNull, InvalidSocket} \cup openSocks'
  <2>1. 1 .. made \subseteq 1 .. made' /\ made + 1 \in 1 .. made + 1
    BY DEF SockInv
  <2> QED
    BY <2>1 DEF SockInv, Kept
<1>5. ToSet(mClients') \subseteq openSocks' \ {m_socket'}
  BY <1>2 DEF SockInv, Kept, SocketNull, InvalidSocket
<1> QED
  BY <1>1, <1>2, <1>3, <1>4, <1>5 DEF SockInv

\* A refused connection leaves the object's socket to nobody.
LEMMA RefusedSound == SockInv /\ Refused => SockInv'
<1> SUFFICES ASSUME SockInv, Refused PROVE SockInv'
  OBVIOUS
<1>1. /\ Leaked' = Leaked \cup {m_socket} /\ m_socket \notin Leaked
      /\ m_socket \in openSocks
  BY DEF SockInv, Refused, Leaked, InvalidSocket, SocketNull
<1>2. IsFiniteSet(Leaked)
  <2>1. Leaked \in SUBSET (1 .. made)
    BY DEF SockInv, Leaked
  <2>2. IsFiniteSet(1 .. made)
    BY FS_Interval DEF SockInv
  <2> QED
    BY <2>1, <2>2, FS_Subset
<1>3. Cardinality(Leaked') = failures + 1
  BY <1>1, <1>2, FS_AddElement DEF SockInv
<1> QED
  BY <1>1, <1>3 DEF SockInv, Refused, InvalidSocket, SocketNull

\* A client's socket is a new one.
LEMMA AcceptSound == SockInv /\ Accept => SockInv'
<1> SUFFICES ASSUME SockInv, Accept PROVE SockInv'
  OBVIOUS
<1>1. made' = made + 1 /\ made' \notin openSocks /\ made' # m_socket /\ made' \in Nat
  BY DEF SockInv, Accept, InvalidSocket, SocketNull
<1>2. /\ mClients' \in Seq(Nat) /\ Len(mClients') = Len(mClients) + 1
      /\ \A i \in 1 .. Len(mClients) : mClients'[i] = mClients[i]
      /\ mClients'[Len(mClients) + 1] = made'
  BY <1>1, AppendProperties DEF SockInv, Accept
<1>3. /\ Len(mClients) \in Nat
      /\ \A x : x \in ToSet(mClients) <=> \E i \in 1 .. Len(mClients) : mClients[i] = x
      /\ \A x : x \in ToSet(mClients') <=> \E i \in 1 .. Len(mClients') : mClients'[i] = x
  BY <1>2, ToSetFacts DEF SockInv
<1>4. ToSet(mClients') = ToSet(mClients) \cup {made'} /\ Unrepeated(mClients')
  <2>1. made' \notin ToSet(mClients)
    BY <1>1 DEF SockInv
  <2>2. ToSet(mClients') = ToSet(mClients) \cup {made'}
    <3>1. ASSUME NEW x \in ToSet(mClients') PROVE x \in ToSet(mClients) \cup {made'}
      <4>1. PICK i \in 1 .. Len(mClients) + 1 : mClients'[i] = x
        BY <1>2, <1>3
      <4> QED
        BY <1>2, <1>3, <4>1
    <3>2. ASSUME NEW x \in ToSet(mClients) \cup {made'} PROVE x \in ToSet(mClients')
      <4>1. CASE x = made'
        BY <1>2, <1>3, <4>1
      <4>2. CASE x \in ToSet(mClients)
        <5>1. PICK i \in 1 .. Len(mClients) : mClients[i] = x
          BY <1>3, <4>2
        <5>2. i \in 1 .. Len(mClients') /\ mClients'[i] = x
          BY <1>2, <1>3, <5>1
        <5> QED
          BY <1>3, <5>2
      <4> QED
        BY <4>1, <4>2
    <3> QED
      BY <3>1, <3>2
  <2>3. ASSUME NEW i \in 1 .. Len(mClients'), NEW j \in 1 .. Len(mClients'),
               mClients'[i] = mClients'[j]
        PROVE  i = j
    <3>1. i \in 1 .. Len(mClients) => mClients'[i] \in ToSet(mClients)
      BY <1>2, <1>3
    <3>2. j \in 1 .. Len(mClients) => mClients'[j] \in ToSet(mClients)
      BY <1>2, <1>3
    <3> QED
      BY <1>2, <1>3, <2>1, <2>3, <3>1, <3>2 DEF Unrepeated, SockInv
  <2> QED
    BY <2>2, <2>3 DEF Unrepeated
<1>5. Leaked' = Leaked
  BY <1>1, <1>4 DEF Leaked, Accept, SockInv
<1> QED
  BY <1>1, <1>2, <1>4, <1>5 DEF SockInv, Accept, connecting

\* A client that is closed was listed once.
LEMMA BreakSound ==
    ASSUME SockInv, NEW i \in DOMAIN mClients, ClientBreaks(i) PROVE SockInv'
<1>1. i \in 1 .. Len(mClients) /\ Len(mClients) \in Nat
  BY LenProperties DEF SockInv
<1>2. /\ mClients' \in Seq(Nat) /\ Len(mClients') = Len(mClients) - 1
      /\ \A j \in 1 .. Len(mClients) - 1 :
            mClients'[j] = IF j < i THEN mClients[j] ELSE mClients[j + 1]
  BY <1>1, RemoveAtFacts DEF SockInv, ClientBreaks
<1>3. ASSUME NEW j \in 1 .. Len(mClients')
      PROVE  \E k \in 1 .. Len(mClients) :
                /\ k # i /\ mClients'[j] = mClients[k]
                /\ k = IF j < i THEN j ELSE j + 1
  <2>1. CASE j < i
    BY <1>1, <1>2, <2>1
  <2>2. CASE j >= i
    <3>1. j + 1 \in 1 .. Len(mClients) /\ j + 1 # i /\ mClients'[j] = mClients[j + 1]
      BY <1>1, <1>2, <2>2
    <3> QED
      BY <3>1, <1>1, <1>2, <2>2
  <2> QED
    BY <2>1, <2>2, <1>1, <1>2
<1>4. Unrepeated(mClients')
  <2>1. ASSUME NEW j \in 1 .. Len(mClients'), NEW k \in 1 .. Len(mClients'),
               mClients'[j] = mClients'[k]
        PROVE  j = k
    <3>1. PICK a \in 1 .. Len(mClients) :
             mClients'[j] = mClients[a] /\ a = IF j < i THEN j ELSE j + 1
      BY <1>3
    <3>2. PICK b \in 1 .. Len(mClients) :
             mClients'[k] = mClients[b] /\ b = IF k < i THEN k ELSE k + 1
      BY <1>3
    <3>3. a = b
      BY <2>1, <3>1, <3>2 DEF SockInv, Unrepeated
    <3> QED
      BY <1>1, <1>2, <3>1, <3>2, <3>3
  <2> QED
    BY <2>1 DEF Unrepeated
<1>5. /\ \A x : x \in ToSet(mClients) <=> \E j \in 1 .. Len(mClients) : mClients[j] = x
      /\ \A x : x \in ToSet(mClients') <=> \E j \in 1 .. Len(mClients') : mClients'[j] = x
  BY <1>2, ToSetFacts DEF SockInv
<1>6. ToSet(mClients') = ToSet(mClients) \ {mClients[i]}
  <2>1. ASSUME NEW x \in ToSet(mClients')
        PROVE  x \in ToSet(mClients) \ {mClients[i]}
    <3>1. PICK j \in 1 .. Len(mClients') : mClients'[j] = x
      BY <1>5
    <3>2. PICK k \in 1 .. Len(mClients) : k # i /\ x = mClients[k]
      BY <1>3, <3>1
    <3> QED
      BY <1>1, <1>5, <3>2 DEF SockInv, Unrepeated
  <2>2. ASSUME NEW x \in ToSet(mClients), x # mClients[i]
        PROVE  x \in ToSet(mClients')
    <3>1. PICK k \in 1 .. Len(mClients) : k # i /\ x = mClients[k]
      BY <1>5, <2>2
    <3>2. CASE k < i
      <4>1. k \in 1 .. Len(mClients') /\ mClients'[k] = x
        BY <1>1, <1>2, <3>1, <3>2
      <4> QED
        BY <1>5, <4>1
    <3>3. CASE k > i
      <4>1. k - 1 \in 1 .. Len(mClients) - 1 /\ ~(k - 1 < i) /\ (k - 1) + 1 = k
        BY <1>1, <3>1, <3>3
      <4>2. k - 1 \in 1 .. Len(mClients') /\ mClients'[k - 1] = x
        BY <1>2, <3>1, <4>1
      <4> QED
        BY <1>5, <4>2
    <3> QED
      BY <1>1, <3>1, <3>2, <3>3
  <2> QED
    BY <2>1, <2>2
<1>7. mClients[i] \in ToSet(mClients)
  BY <1>1, <1>5
<1>8. Leaked' = Leaked
  BY <1>6, <1>7 DEF Leaked, ClientBreaks, SockInv
<1> QED
  BY <1>2, <1>4, <1>6, <1>7, <1>8 DEF SockInv, ClientBreaks, connecting

\* The steps of Connect before it throws, and of Listen, keep every socket.
LEMMA OthersSound ==
    ASSUME SockInv, UNCHANGED <<m_socket, made, openSocks, failures, mClients>>,
           current' # 0 => HasSocket
    PROVE  SockInv'
<1>1. Leaked' = Leaked /\ Unrepeated(mClients)'
  BY DEF Leaked, SockInv
<1> QED
  BY <1>1 DEF SockInv, HasSocket

\* Every step of the TCP connector keeps SockInv.
LEMMA SockStep == SockInv /\ [SockNext]_sockVars => SockInv'
<1> SUFFICES ASSUME SockInv, [SockNext]_sockVars PROVE SockInv'
  OBVIOUS
<1> USE DEF connecting
<1>0. current # 0 => HasSocket
  BY DEF SockInv, HasSocket, SocketNull, InvalidSocket
<1>1. CASE CreateSocket
  BY <1>1, ReplaceSound DEF CreateSocket
<1>2. CASE DestroySocket
  BY <1>2, ReplaceSound DEF DestroySocket
<1>3. CASE Connect
  BY <1>3, OthersSound DEF Connect
<1>4. CASE Connected
  BY <1>4, OthersSound DEF Connected
<1>5. CASE TryNext
  BY <1>5, <1>0, OthersSound DEF TryNext
<1>6. CASE Refused
  BY <1>6, RefusedSound
<1>7. CASE Listen
  BY <1>7, <1>0, OthersSound DEF Listen
<1>8. CASE Accept
  BY <1>8, AcceptSound
<1>9. CASE \E i \in DOMAIN mClients : ClientBreaks(i)
  BY <1>9, BreakSound
<1>10. CASE UNCHANGED sockVars
  BY <1>10, <1>0, OthersSound DEF sockVars
<1> QED
  BY <1>1, <1>2, <1>3, <1>4, <1>5, <1>6, <1>7, <1>8, <1>9, <1>10 DEF SockNext

\* Through any number of starts, failed connections and clients, every open socket
\* is the object's, a client's, or one of the sockets that a Connect that threw
\* has left, exactly one each time.
THEOREM SocketsAccountedFor == SockSpec => []OnlyFailedConnectsLeak
<1>1. SockInv => OnlyFailedConnectsLeak
  BY DistinctCount DEF SockInv, OnlyFailedConnectsLeak, Leaked
<1> QED
  BY <1>1, SockInitial, SockStep, PTL DEF SockSpec

\* Connect runs only with a socket that does not listen, and tries addresses that
\* the host has.
ConnectTyped ==
    /\ made <= MaxSockets /\ current \in 0 .. 2
    /\ host \in Seq(BOOLEAN) /\ current <= Len(host)
    /\ current # 0 => ~listening
    /\ listening => HasSocket

\* The connection's state is typed initially.
LEMMA ConnectInitial == SockInit => ConnectTyped
<1> SUFFICES ASSUME SockInit PROVE ConnectTyped
  OBVIOUS
<1>1. made = 0 /\ current = 0 /\ ~listening
  BY DEF SockInit
<1>2. host \in Seq(BOOLEAN) /\ Len(host) = 0
  BY DEF SockInit
<1> QED
  BY <1>1, <1>2, SocketAssumption DEF ConnectTyped

\* Every step of the TCP connector keeps the connection's types.
LEMMA ConnectStep == SockInv /\ ConnectTyped /\ [SockNext]_sockVars => ConnectTyped'
<1> SUFFICES ASSUME SockInv, ConnectTyped, [SockNext]_sockVars PROVE ConnectTyped'
  OBVIOUS
<1>0. /\ made \in Nat /\ made <= MaxSockets /\ MaxSockets \in Nat /\ current \in 0 .. 2
      /\ host \in Seq(BOOLEAN) /\ Len(host) \in Nat /\ current <= Len(host)
      /\ current # 0 => ~listening
      /\ listening => HasSocket
  BY SocketAssumption DEF SockInv, ConnectTyped
<1> USE DEF connecting
<1>1. CASE CreateSocket
  BY <1>0, <1>1 DEF CreateSocket, ConnectTyped
<1>2. CASE DestroySocket
  BY <1>0, <1>2 DEF DestroySocket, ConnectTyped
<1>3. CASE Connect
  <2>1. PICK n \in 1 .. MaxAddresses : host' \in [1 .. n -> BOOLEAN]
    BY <1>3 DEF Connect
  <2>2. host' \in Seq(BOOLEAN) /\ Len(host') = n /\ n \in Nat /\ 1 <= n
    BY <2>1, SocketAssumption
  <2>3. current' = 1 /\ ~listening' /\ made' = made
    BY <1>3 DEF Connect
  <2> QED
    BY <1>0, <2>2, <2>3 DEF ConnectTyped
<1>4. CASE Connected
  BY <1>0, <1>4 DEF Connected, ConnectTyped, HasSocket
<1>5. CASE TryNext
  BY <1>0, <1>5 DEF TryNext, ConnectTyped, HasSocket
<1>6. CASE Refused
  BY <1>0, <1>6 DEF Refused, ConnectTyped
<1>7. CASE Listen
  BY <1>0, <1>7 DEF Listen, ConnectTyped, HasSocket
<1>8. CASE Accept
  BY <1>0, <1>8 DEF Accept, ConnectTyped, HasSocket
<1>9. CASE \E i \in DOMAIN mClients : ClientBreaks(i)
  BY <1>0, <1>9 DEF ClientBreaks, ConnectTyped, HasSocket
<1>10. CASE UNCHANGED sockVars
  BY <1>0, <1>10 DEF sockVars, ConnectTyped, HasSocket
<1> QED
  BY <1>1, <1>2, <1>3, <1>4, <1>5, <1>6, <1>7, <1>8, <1>9, <1>10 DEF SockNext

\* Connect never goes past the second address, and never past the last; where
\* the object listens it has a socket.
THEOREM SockTyped == SockSpec => []SockTypeOK
<1>1. SockInv /\ ConnectTyped => SockTypeOK
  <2> SUFFICES ASSUME SockInv, ConnectTyped PROVE SockTypeOK
    OBVIOUS
  <2>1. /\ m_socket \in {SocketNull, InvalidSocket} \cup openSocks
        /\ openSocks \subseteq 1 .. made
        /\ current # 0 => HasSocket
    BY DEF SockInv, HasSocket, SocketNull, InvalidSocket
  <2>2. /\ made <= MaxSockets /\ current \in 0 .. 2 /\ current <= Len(host)
        /\ listening => HasSocket
    BY DEF ConnectTyped
  <2> QED
    BY <2>1, <2>2, Zenon DEF SockTypeOK
<1> QED
  BY <1>1, SockInitial, SockStep, ConnectInitial, ConnectStep, PTL DEF SockSpec

-----------------------------------------------------------------------------
(* The device's subjects.                                                  *)

\* A sequence is a prefix where it is no longer and has the same elements.
LEMMA IsPrefixFacts ==
    ASSUME NEW S, NEW s \in Seq(S), NEW t \in Seq(S)
    PROVE  IsPrefix(s, t) <=> Len(s) <= Len(t) /\ \A i \in 1 .. Len(s) : s[i] = t[i]
<1>1. Len(s) \in Nat /\ Len(t) \in Nat
  OBVIOUS
<1>2. CASE Len(s) <= Len(t)
  <2>1. /\ SubSeq(s, 1, Len(s)) \in Seq(S) /\ Len(SubSeq(s, 1, Len(s))) = Len(s)
        /\ \A i \in 1 .. Len(s) : SubSeq(s, 1, Len(s))[i] = s[i]
    BY <1>1, SMT
  <2>2. /\ SubSeq(t, 1, Len(s)) \in Seq(S) /\ Len(SubSeq(t, 1, Len(s))) = Len(s)
        /\ \A i \in 1 .. Len(s) : SubSeq(t, 1, Len(s))[i] = t[i]
    BY <1>1, <1>2, SMT
  <2>3. SubSeq(s, 1, Len(s)) = SubSeq(t, 1, Len(s)) <=> \A i \in 1 .. Len(s) : s[i] = t[i]
    <3> DEFINE a == SubSeq(s, 1, Len(s))  b == SubSeq(t, 1, Len(s))
    <3> HIDE DEF a, b
    <3>1. a = b => \A i \in 1 .. Len(s) : a[i] = b[i]
      OBVIOUS
    <3>2. (\A i \in 1 .. Len(s) : a[i] = b[i]) => a = b
      BY <2>1, <2>2, SeqEqual DEF a, b
    <3> QED
      BY <3>1, <3>2, <2>1, <2>2 DEF a, b
  <2> QED
    BY <1>2, <2>3 DEF IsPrefix
<1>3. CASE ~(Len(s) <= Len(t))
  BY <1>3 DEF IsPrefix
<1> QED
  BY <1>2, <1>3

\* The lists of subjects with rows in front.
Extensions(rows) == {items \in Seq(Subject) : IsPrefix(rows, items)}

\* One more subject.
LEMMA OneMore ==
    ASSUME NEW rows \in Seq(Subject), NEW items \in Extensions(rows), NEW s \in Subject
    PROVE  Append(items, s) \in Extensions(rows)
<1>1. items \in Seq(Subject) /\ IsPrefix(rows, items) /\ Len(items) \in Nat /\ Len(rows) \in Nat
  BY DEF Extensions
<1>2. /\ Append(items, s) \in Seq(Subject) /\ Len(Append(items, s)) = Len(items) + 1
      /\ \A i \in 1 .. Len(items) : Append(items, s)[i] = items[i]
  BY <1>1
<1>3. Len(rows) <= Len(items) /\ \A i \in 1 .. Len(rows) : rows[i] = items[i]
  BY <1>1, IsPrefixFacts
<1>4. Len(rows) <= Len(Append(items, s)) /\ \A i \in 1 .. Len(rows) : rows[i] = Append(items, s)[i]
  BY <1>1, <1>2, <1>3
<1> QED
  BY <1>2, <1>4, IsPrefixFacts DEF Extensions

\* The function a fold of AddItem chooses.
AddsItems(f, items, selected) ==
    f = [s \in SUBSET (DOMAIN selected) |->
           IF s = {} THEN items ELSE AddItem(f[s \ {Max(s)}], selected[Max(s)])]

\* Selected models are added behind.
LEMMA ItemsAdded ==
    ASSUME NEW rows \in Seq(Subject), NEW items \in Extensions(rows), NEW selected \in Seq(Models)
    PROVE  /\ FoldLeft(AddItem, items, selected) \in Extensions(rows)
           /\ Len(FoldLeft(AddItem, items, selected)) <= Len(items) + Len(selected)
<1> DEFINE n == Len(selected)
           A == Extensions(rows)
           G == [p \in A \X (1 .. n) |-> AddItem(p[1], selected[p[2]])]
<1>1. n \in Nat /\ DOMAIN selected = 1 .. n /\ \A i \in 1 .. n : selected[i] \in Models
  OBVIOUS
<1>2. ASSUME NEW a \in A, NEW i \in 1 .. n
      PROVE  G[<<a, i>>] = AddItem(a, selected[i]) /\ AddItem(a, selected[i]) \in A
  <2>1. [mReference |-> selected[i], mName |-> "of the model"] \in Subject
    BY <1>1 DEF Subject, ItemNames
  <2>2. AddItem(a, selected[i]) \in A
    BY <2>1, OneMore DEF AddItem
  <2> QED
    BY <2>2
<1>i. items \in A
  OBVIOUS
<1> DEFINE l == Len(items)
           Short(k) == {a \in A : Len(a) <= l + k}
<1>l. l \in Nat /\ \A a \in A : Len(a) \in Nat
  BY DEF Extensions
<1>t. ASSUME NEW a \in A, NEW i \in 1 .. n
      PROVE  Len(AddItem(a, selected[i])) <= Len(a) + 1
  BY <1>1, <1>l, <1>t DEF Extensions, AddItem
<1> HIDE DEF n, A, G, l
<1>3. PICK g \in [SUBSET (1 .. n) -> A] : Folds(g, n, items, G)
  <2>1. n \in Nat /\ items \in A /\ \A a \in A : \A i \in 1 .. n : G[<<a, i>>] \in A
    BY <1>1, <1>2, <1>i
  <2> QED
    BY <2>1, FoldExists, Zenon
<1>4. AddsItems(g, items, selected)
  <2>1. ASSUME NEW s \in SUBSET (1 .. n)
        PROVE  g[s] = IF s = {} THEN items ELSE AddItem(g[s \ {Max(s)}], selected[Max(s)])
    <3>1. g[s] = IF s = {} THEN items ELSE G[<<g[s \ {Max(s)}], Max(s)>>]
      BY <1>3 DEF Folds
    <3>2. s # {} => Max(s) \in 1 .. n /\ g[s \ {Max(s)}] \in A
      BY <1>1, <1>3, GreatestFacts
    <3> QED
      BY <3>1, <3>2, <1>2
  <2>2. g = [s \in SUBSET (1 .. n) |->
               IF s = {} THEN items ELSE AddItem(g[s \ {Max(s)}], selected[Max(s)])]
    BY <1>3, <2>1
  <2> QED
    BY <1>1, <2>2 DEF AddsItems
<1> DEFINE f == CHOOSE h : AddsItems(h, items, selected)
<1>5. AddsItems(f, items, selected)
  BY <1>4, Zenon
<1>6. FoldLeft(AddItem, items, selected) = f[1 .. n]
  BY <1>1 DEF FoldLeft, MapThenFoldSet, AddsItems
<1> HIDE DEF f
<1>7. \A s \in SUBSET (1 .. n) :
        f[s] = IF s = {} THEN items ELSE AddItem(f[s \ {Max(s)}], selected[Max(s)])
  BY <1>1, <1>5 DEF AddsItems
<1> DEFINE B == [k \in 0 .. n |-> Short(k)]
<1>8. f[{}] \in B[0]
  <2>1. f[{}] = items /\ Len(items) = l
    BY <1>1, <1>7 DEF l
  <2> QED
    BY <2>1, <1>1, <1>i, <1>l
<1>9. ASSUME NEW k \in 1 .. n, f[1 .. k - 1] \in B[k - 1] PROVE f[1 .. k] \in B[k]
  <2>1. f[1 .. k] = AddItem(f[1 .. k - 1], selected[k])
    BY <1>1, <1>7, PlaceFacts
  <2>2. f[1 .. k - 1] \in A /\ Len(f[1 .. k - 1]) <= l + (k - 1)
    BY <1>1, <1>9
  <2>3. f[1 .. k] \in A /\ Len(f[1 .. k]) <= Len(f[1 .. k - 1]) + 1
    BY <1>2, <1>t, <2>1, <2>2
  <2>4. Len(f[1 .. k]) <= l + k
    BY <1>1, <1>l, <2>2, <2>3
  <2> QED
    BY <1>1, <2>3, <2>4
<1>10. f[1 .. n] \in B[n]
  <2> HIDE DEF B
  <2> QED
    BY <1>1, <1>8, <1>9, FoldKeeps
<1>11. f[1 .. n] \in A /\ Len(f[1 .. n]) <= l + n
  BY <1>1, <1>10
<1> QED
  BY <1>6, <1>11 DEF A, l, n

\* The function the fold of FbxRetrieve chooses.
RetrievesItems(f, items, stored, gone) ==
    f = [s \in SUBSET (DOMAIN stored) |->
           IF s = {} THEN items
           ELSE IF stored[Max(s)].mReference \in gone THEN f[s \ {Max(s)}]
           ELSE Append(f[s \ {Max(s)}], stored[Max(s)])]

\* Subjects of the file are added behind.
LEMMA ItemsRetrieved ==
    ASSUME NEW rows \in Seq(Subject), NEW items \in Extensions(rows), NEW stored \in Seq(Subject),
           NEW gone
    PROVE  /\ Retrieved(items, stored, gone) \in Extensions(rows)
           /\ Len(Retrieved(items, stored, gone)) <= Len(items) + Len(stored)
<1> DEFINE n == Len(stored)
           A == Extensions(rows)
           Retrieve(list, s) == IF s.mReference \in gone THEN list ELSE Append(list, s)
           G == [p \in A \X (1 .. n) |-> Retrieve(p[1], stored[p[2]])]
<1>1. n \in Nat /\ DOMAIN stored = 1 .. n /\ \A i \in 1 .. n : stored[i] \in Subject
  OBVIOUS
<1>2. ASSUME NEW a \in A, NEW i \in 1 .. n
      PROVE  G[<<a, i>>] = Retrieve(a, stored[i]) /\ Retrieve(a, stored[i]) \in A
  <2>2. Retrieve(a, stored[i]) \in A
    BY <1>1, OneMore
  <2> QED
    BY <2>2
<1>i. items \in A
  OBVIOUS
<1> DEFINE l == Len(items)
           Short(k) == {a \in A : Len(a) <= l + k}
<1>l. l \in Nat /\ \A a \in A : Len(a) \in Nat
  BY DEF Extensions
<1>t. ASSUME NEW a \in A, NEW i \in 1 .. n
      PROVE  Len(Retrieve(a, stored[i])) <= Len(a) + 1
  BY <1>1, <1>l, <1>t DEF Extensions
<1> HIDE DEF n, A, G, l
<1>3. PICK g \in [SUBSET (1 .. n) -> A] : Folds(g, n, items, G)
  <2>1. n \in Nat /\ items \in A /\ \A a \in A : \A i \in 1 .. n : G[<<a, i>>] \in A
    BY <1>1, <1>2, <1>i
  <2> QED
    BY <2>1, FoldExists, Zenon
<1>4. RetrievesItems(g, items, stored, gone)
  <2>1. ASSUME NEW s \in SUBSET (1 .. n)
        PROVE  g[s] = IF s = {} THEN items
               ELSE IF stored[Max(s)].mReference \in gone THEN g[s \ {Max(s)}]
               ELSE Append(g[s \ {Max(s)}], stored[Max(s)])
    <3>1. g[s] = IF s = {} THEN items ELSE G[<<g[s \ {Max(s)}], Max(s)>>]
      BY <1>3 DEF Folds
    <3>2. s # {} => Max(s) \in 1 .. n /\ g[s \ {Max(s)}] \in A
      BY <1>1, <1>3, GreatestFacts
    <3> QED
      BY <3>1, <3>2, <1>2
  <2>2. g = [s \in SUBSET (1 .. n) |->
               IF s = {} THEN items
               ELSE IF stored[Max(s)].mReference \in gone THEN g[s \ {Max(s)}]
               ELSE Append(g[s \ {Max(s)}], stored[Max(s)])]
    BY <1>3, <2>1
  <2> QED
    BY <1>1, <2>2 DEF RetrievesItems
<1> DEFINE f == CHOOSE h : RetrievesItems(h, items, stored, gone)
<1>5. RetrievesItems(f, items, stored, gone)
  BY <1>4, Zenon
<1>6. Retrieved(items, stored, gone) = f[1 .. n]
  BY <1>1 DEF Retrieved, FoldLeft, MapThenFoldSet, RetrievesItems
<1> HIDE DEF f
<1>7. \A s \in SUBSET (1 .. n) :
        f[s] = IF s = {} THEN items
           ELSE IF stored[Max(s)].mReference \in gone THEN f[s \ {Max(s)}]
           ELSE Append(f[s \ {Max(s)}], stored[Max(s)])
  BY <1>1, <1>5 DEF RetrievesItems
<1> DEFINE B == [k \in 0 .. n |-> Short(k)]
<1>8. f[{}] \in B[0]
  <2>1. f[{}] = items /\ Len(items) = l
    BY <1>1, <1>7 DEF l
  <2> QED
    BY <2>1, <1>1, <1>i, <1>l
<1>9. ASSUME NEW k \in 1 .. n, f[1 .. k - 1] \in B[k - 1] PROVE f[1 .. k] \in B[k]
  <2>1. f[1 .. k] = Retrieve(f[1 .. k - 1], stored[k])
    BY <1>1, <1>7, PlaceFacts
  <2>2. f[1 .. k - 1] \in A /\ Len(f[1 .. k - 1]) <= l + (k - 1)
    BY <1>1, <1>9
  <2>3. f[1 .. k] \in A /\ Len(f[1 .. k]) <= Len(f[1 .. k - 1]) + 1
    BY <1>2, <1>t, <2>1, <2>2
  <2>4. Len(f[1 .. k]) <= l + k
    BY <1>1, <1>l, <2>2, <2>3
  <2> QED
    BY <1>1, <2>3, <2>4
<1>10. f[1 .. n] \in B[n]
  <2> HIDE DEF B
  <2> QED
    BY <1>1, <1>8, <1>9, FoldKeeps
<1>11. f[1 .. n] \in A /\ Len(f[1 .. n]) <= l + n
  BY <1>1, <1>10
<1> QED
  BY <1>6, <1>11 DEF A, l, n
\* r is s with e at its i-th place.
IsPut(r, s, i, e) ==
    Len(r) = Len(s) /\ \A j \in 1 .. Len(s) : r[j] = IF j = i THEN e ELSE s[j]

\* An element taken out and put in again.
LEMMA PutAgain ==
    ASSUME NEW S, NEW s \in Seq(S), NEW i \in 1 .. Len(s), NEW e \in S
    PROVE  /\ InsertAt(RemoveAt(s, i), i, e) \in Seq(S)
           /\ IsPut(InsertAt(RemoveAt(s, i), i, e), s, i, e)
<1> DEFINE r == RemoveAt(s, i)
           l == Len(s)
           before == SubSeq(r, 1, i - 1)
           after == SubSeq(r, i, Len(r))
<1>1. /\ l \in Nat /\ i \in 1 .. l
      /\ r \in Seq(S) /\ Len(r) = l - 1
      /\ \A j \in 1 .. l - 1 : r[j] = IF j < i THEN s[j] ELSE s[j + 1]
  <2>1. l \in Nat /\ i \in 1 .. l
    OBVIOUS
  <2>2. /\ RemoveAt(s, i) \in Seq(S) /\ Len(RemoveAt(s, i)) = Len(s) - 1
        /\ \A j \in 1 .. Len(s) - 1 : RemoveAt(s, i)[j] = IF j < i THEN s[j] ELSE s[j + 1]
    BY RemoveAtFacts
  <2> QED
    BY <2>1, <2>2, Zenon
<1>2. InsertAt(r, i, e) = before \o <<e>> \o after
  BY DEF InsertAt
<1> HIDE DEF r, l
<1>3. /\ before \in Seq(S) /\ Len(before) = i - 1
      /\ \A j \in 1 .. i - 1 : before[j] = r[j]
  BY <1>1, SMT
<1>4. /\ after \in Seq(S) /\ Len(after) = l - i
      /\ \A j \in 1 .. l - i : after[j] = r[i + j - 1]
  BY <1>1, SMT
<1> HIDE DEF before, after
<1>5. /\ before \o <<e>> \in Seq(S) /\ Len(before \o <<e>>) = i
      /\ \A j \in 1 .. i : (before \o <<e>>)[j] = IF j = i THEN e ELSE before[j]
  BY <1>1, <1>3
<1> DEFINE front == before \o <<e>>
<1> HIDE DEF front
<1>6. /\ front \o after \in Seq(S) /\ Len(front \o after) = Len(front) + Len(after)
      /\ \A j \in 1 .. Len(front) + Len(after) :
            (front \o after)[j] = IF j <= Len(front) THEN front[j] ELSE after[j - Len(front)]
  <2>1. front \in Seq(S) /\ after \in Seq(S)
    BY <1>4, <1>5 DEF front
  <2> QED
    BY <2>1, ConcatProperties
<1>7. Len(front) = i /\ Len(after) = l - i /\ i + (l - i) = l
  BY <1>1, <1>4, <1>5 DEF front
<1>8. ASSUME NEW j \in 1 .. l
      PROVE  (front \o after)[j] = IF j = i THEN e ELSE s[j]
  <2>1. CASE j < i
    <3>1. j \in 1 .. i /\ j \in 1 .. i - 1 /\ j \in 1 .. l - 1 /\ j # i /\ j <= i
      BY <1>1, <2>1
    <3> QED
      BY <1>1, <1>3, <1>5, <1>6, <1>7, <3>1 DEF front
  <2>2. CASE j = i
    <3>1. j \in 1 .. i /\ j <= i
      BY <1>1, <2>2
    <3> QED
      BY <1>5, <1>6, <1>7, <2>2, <3>1 DEF front
  <2>3. CASE j > i
    <3>1. /\ j - i \in 1 .. l - i /\ i + (j - i) - 1 = j - 1 /\ j - 1 \in 1 .. l - 1
          /\ ~(j - 1 < i) /\ (j - 1) + 1 = j /\ ~(j <= i) /\ j # i
      BY <1>1, <2>3
    <3>2. (front \o after)[j] = after[j - i]
      BY <1>6, <1>7, <3>1
    <3>3. after[j - i] = r[j - 1] /\ r[j - 1] = s[j]
      BY <1>1, <1>4, <3>1
    <3> QED
      BY <3>1, <3>2, <3>3
  <2>4. j < i \/ j = i \/ j > i
    BY <1>1
  <2> QED
    BY <2>1, <2>2, <2>3, <2>4
<1>9. InsertAt(r, i, e) = front \o after
  BY <1>2 DEF front
<1> QED
  BY <1>6, <1>7, <1>8, <1>9 DEF r, l, IsPut

\* The rows are in front of the subjects.
RowsInv == shownItems \in Seq(Subject) /\ Items \in Extensions(shownItems) /\ file \in Seq(Subject)

\* A list is behind itself.
LEMMA BehindItself == \A s \in Seq(Subject) : s \in Extensions(s)
<1> TAKE s \in Seq(Subject)
<1>1. Len(s) <= Len(s)
  OBVIOUS
<1> QED
  BY <1>1, IsPrefixFacts DEF Extensions

\* It holds at first.
LEMMA RowsInitial == DevInit => RowsInv
<1>1. <<>> \in Seq(Subject)
  OBVIOUS
<1> QED
  BY <1>1, BehindItself DEF DevInit, RowsInv

\* What the layout does to the subjects, and the scene file, keeps it.
LEMMA RowsStep == RowsInv /\ [DevNext]_devVars => RowsInv'
<1> SUFFICES ASSUME RowsInv, [DevNext]_devVars PROVE RowsInv'
  OBVIOUS
<1>0. /\ shownItems \in Seq(Subject) /\ Items \in Seq(Subject) /\ file \in Seq(Subject)
      /\ Items \in Extensions(shownItems) /\ IsPrefix(shownItems, Items)
  BY DEF RowsInv, Extensions
<1>1. ASSUME UNCHANGED ui PROVE RowsInv'
  BY <1>0, <1>1 DEF RowsInv, ui
<1>2. ASSUME NEW selected \in SeqOf(Models, MaxItems), EventAdd(selected) PROVE RowsInv'
  <2>1. selected \in Seq(Models)
    BY DEF SeqOf
  <2>2. Items' \in Extensions(Items)
    <3>1. FoldLeft(AddItem, Items, selected) \in Extensions(Items)
      BY <1>0, <2>1, BehindItself, ItemsAdded
    <3> QED
      BY <1>2, <3>1 DEF EventAdd
  <2>3. Items' \in Seq(Subject) /\ shownItems' = Items' /\ file' = file
    BY <1>2, <2>2 DEF EventAdd, PopulateSubjectList, Extensions
  <2> QED
    BY <1>0, <2>3, BehindItself DEF RowsInv
<1>3. ASSUME NEW id \in 1 .. MaxItems, EventDel(id) PROVE RowsInv'
  <2>1. id \in 1 .. Len(Items)
    BY <1>0, <1>3 DEF EventDel
  <2>2. Items' \in Seq(Subject) /\ shownItems' = Items' /\ file' = file
    BY <1>0, <1>3, <2>1, RemoveAtFacts DEF EventDel, PopulateSubjectList
  <2> QED
    BY <1>0, <2>2, BehindItself DEF RowsInv
<1>4. ASSUME NEW id \in 1 .. MaxItems, EventEditSubject(id) PROVE RowsInv'
  <2>1. id \in 1 .. Len(Items) /\ id \in 1 .. Len(shownItems)
    BY <1>0, <1>4 DEF EventEditSubject
  <2>2. PICK name \in ItemNames :
          /\ Items' = [Items EXCEPT ![id].mName = name]
          /\ shownItems' = InsertAt(RemoveAt(shownItems, id), id, Items'[id])
    BY <1>4 DEF EventEditSubject
  <2>3. /\ Items' \in Seq(Subject) /\ Len(Items') = Len(Items) /\ Items'[id] \in Subject
        /\ \A j \in 1 .. Len(Items) : j # id => Items'[j] = Items[j]
    <3> DEFINE e == [Items[id] EXCEPT !.mName = name]
    <3>1. e \in Subject
      <4>1. Items[id] \in Subject /\ name \in ItemNames
        BY <1>0, <2>1, <2>2
      <4> QED
        BY <4>1 DEF Subject
    <3>2. Items' = [Items EXCEPT ![id] = e]
      BY <2>2
    <3> HIDE DEF e
    <3> QED
      BY <1>0, <2>1, <3>1, <3>2
  <2>4. /\ shownItems' \in Seq(Subject) /\ Len(shownItems') = Len(shownItems)
        /\ \A j \in 1 .. Len(shownItems) :
              shownItems'[j] = IF j = id THEN Items'[id] ELSE shownItems[j]
    <3>1. PICK e \in Subject : e = Items'[id]
      BY <2>3
    <3>2. shownItems' = InsertAt(RemoveAt(shownItems, id), id, e)
      BY <2>2, <3>1
    <3> DEFINE put == InsertAt(RemoveAt(shownItems, id), id, e)
    <3>3. put \in Seq(Subject) /\ IsPut(put, shownItems, id, e)
      <4>1. shownItems \in Seq(Subject) /\ id \in 1 .. Len(shownItems) /\ e \in Subject
        BY <1>0, <2>1, <3>1
      <4> QED
        BY <4>1, PutAgain, Zenon
    <3> HIDE DEF put
    <3>4. shownItems' = put
      BY <3>2 DEF put
    <3> QED
      BY <3>1, <3>3, <3>4 DEF IsPut
  <2>5. Len(shownItems) <= Len(Items) /\ \A j \in 1 .. Len(shownItems) : shownItems[j] = Items[j]
    BY <1>0, IsPrefixFacts
  <2>6. /\ Len(shownItems') <= Len(Items')
        /\ \A j \in 1 .. Len(shownItems') : shownItems'[j] = Items'[j]
    <3>1. Len(shownItems) \in Nat /\ Len(Items) \in Nat
      BY <1>0
    <3>2. ASSUME NEW j \in 1 .. Len(shownItems) PROVE shownItems'[j] = Items'[j]
      <4>1. j \in 1 .. Len(Items)
        BY <2>5, <3>1, <3>2
      <4> QED
        BY <2>3, <2>4, <2>5, <4>1, <3>2
    <3> QED
      BY <2>3, <2>4, <2>5, <3>2
  <2>7. Items' \in Extensions(shownItems')
    BY <2>3, <2>4, <2>6, IsPrefixFacts DEF Extensions
  <2> QED
    BY <1>0, <1>4, <2>4, <2>7 DEF RowsInv, EventEditSubject
<1>5. ASSUME UIConfigure PROVE RowsInv'
  <2>1. Items' = Items /\ shownItems' = Items /\ file' = file
    BY <1>5 DEF UIConfigure, PopulateSubjectList
  <2> QED
    BY <1>0, <2>1, BehindItself DEF RowsInv
<1>6. ASSUME FbxStore PROVE RowsInv'
  BY <1>0, <1>6 DEF FbxStore, RowsInv
<1>7. ASSUME NEW gone \in SUBSET Models, FbxRetrieve(gone) PROVE RowsInv'
  <2>1. Items' \in Extensions(shownItems)
    <3>1. Items' = Retrieved(Items, file, gone)
      BY <1>7 DEF FbxRetrieve
    <3>2. Retrieved(Items, file, gone) \in Extensions(shownItems)
      BY <1>0, ItemsRetrieved
    <3> QED
      BY <3>1, <3>2
  <2> QED
    BY <1>0, <1>7, <2>1 DEF FbxRetrieve, RowsInv
<1>8. CASE EventUIIdle
  BY <1>0, <1>8 DEF EventUIIdle, RowsInv
<1>10. CASE Start \/ Stop \/ Reset \/ EventEditProtocol \/ DeviceIONotify
  <2>1. UNCHANGED ui
    BY <1>10 DEF Start, Stop, Reset, StartAny, EventEditProtocol, DeviceIONotify
  <2> QED
    BY <1>1, <2>1
<1>9. CASE UNCHANGED devVars
  BY <1>1, <1>9 DEF devVars
<1> QED
  BY <1>2, <1>3, <1>4, <1>5, <1>6, <1>7, <1>8, <1>9, <1>10 DEF DevNext

\* Whatever was added, deleted, renamed and retrieved, a row of the layout is a
\* subject of the device, and shows its name.
THEOREM RowsMatch == DevSpec => []RowsAreSubjects
<1>1. RowsInv => RowsAreSubjects
  BY DEF RowsInv, Extensions, RowsAreSubjects
<1> QED
  BY <1>1, RowsInitial, RowsStep, PTL DEF DevSpec

\* The device's own state.  A counter at 0 has not left it: it is set back behind
\* a test that no packet passes.
DeviceTyped ==
    /\ mProtocol \in Protocols /\ mNetworkSocket \in {"none", "junk", "udp"}
    /\ mTcpIp \in BOOLEAN /\ mServer \in BOOLEAN /\ Online \in BOOLEAN /\ editable \in BOOLEAN
    /\ Len(Items) <= MaxItems /\ Len(file) <= MaxItems

FramesTyped ==
    /\ mFrameCounter \in Nat /\ notified \in 0 .. MaxFrames /\ written \in 0 .. notified
    /\ fulls \in 0 .. 1
    /\ mFrameCounter = 0 => fulls = 0

\* The device's own state is typed initially.
LEMMA DeviceInitial == DevInit => DeviceTyped
<1> SUFFICES ASSUME DevInit PROVE DeviceTyped
  OBVIOUS
<1>1. /\ mProtocol \in Protocols /\ mNetworkSocket \in {"none", "junk", "udp"}
      /\ mTcpIp \in BOOLEAN /\ mServer \in BOOLEAN /\ Online \in BOOLEAN /\ editable \in BOOLEAN
  BY DEF DevInit, Protocols
<1>2. Len(Items) = 0 /\ Len(file) = 0
  BY DEF DevInit
<1>3. Len(Items) <= MaxItems /\ Len(file) <= MaxItems
  BY <1>2, DeviceAssumption
<1> QED
  BY <1>1, <1>3 DEF DeviceTyped

\* The counts of frames are typed initially.
LEMMA FramesInitial == DevInit => FramesTyped
<1> SUFFICES ASSUME DevInit PROVE FramesTyped
  OBVIOUS
<1>1. mFrameCounter = 0 /\ notified = 0 /\ written = 0 /\ fulls = 0
  BY DEF DevInit
<1> QED
  BY <1>1, DeviceAssumption DEF FramesTyped

\* Every step of the device keeps the counts' types.
LEMMA FramesStep == FramesTyped /\ [DevNext]_devVars => FramesTyped'
<1> SUFFICES ASSUME FramesTyped, [DevNext]_devVars PROVE FramesTyped'
  OBVIOUS
<1>1. CASE DeviceIONotify
  <2>1. ~Parses(SerializedSize)
    BY DeviceAssumption DEF Parses, SerializedSize
  <2>2. /\ mFrameCounter' = mFrameCounter + 1 /\ written' = written
        /\ notified < MaxFrames /\ notified' \in {notified, notified + 1}
        /\ fulls' = IF mFrameCounter = 0 THEN fulls + 1 ELSE fulls
    BY <1>1, <2>1 DEF DeviceIONotify
  <2> QED
    BY <2>2, DeviceAssumption DEF FramesTyped
<1>2. CASE UNCHANGED frames
  BY <1>2 DEF frames, FramesTyped
<1>3. ~DeviceIONotify => UNCHANGED frames
  BY DEF DevNext, devVars, Start, Stop, Reset, StartAny, EventEditProtocol, UIConfigure,
     FbxStore, EventAdd, EventDel, EventEditSubject, FbxRetrieve, EventUIIdle
<1> QED
  BY <1>1, <1>2, <1>3

\* Started and stopped in any order, each of its sockets is open or not.
LEMMA NetStep == DeviceTyped /\ [DevNext]_devVars =>
    /\ mProtocol' \in Protocols /\ mNetworkSocket' \in {"none", "junk", "udp"}
    /\ mTcpIp' \in BOOLEAN /\ mServer' \in BOOLEAN /\ Online' \in BOOLEAN
<1> DEFINE Net == /\ mProtocol' \in Protocols /\ mNetworkSocket' \in {"none", "junk", "udp"}
                  /\ mTcpIp' \in BOOLEAN /\ mServer' \in BOOLEAN /\ Online' \in BOOLEAN
<1> SUFFICES ASSUME DeviceTyped, [DevNext]_devVars PROVE Net
  OBVIOUS
<1>0. /\ mProtocol \in Protocols /\ mNetworkSocket \in {"none", "junk", "udp"}
      /\ mTcpIp \in BOOLEAN /\ mServer \in BOOLEAN /\ Online \in BOOLEAN
  BY DEF DeviceTyped
<1>1. StillOpen \subseteq BOOLEAN
  BY <1>0 DEF StillOpen
<1>2. ASSUME NEW tcp \in BOOLEAN, StartAny(tcp) PROVE Net
  <2>1. CASE StartNng(tcp)
    BY <1>0, <1>2, <2>1 DEF StartAny, StartNng
  <2>2. CASE StartTcp
    BY <1>0, <1>2, <2>2 DEF StartAny, StartTcp
  <2>3. CASE StartUdp(tcp)
    BY <1>0, <1>2, <2>3 DEF StartAny, StartUdp
  <2> QED
    BY <1>2, <2>1, <2>2, <2>3 DEF StartAny
<1>3. CASE Start
  BY <1>0, <1>2, <1>3 DEF Start
<1>4. CASE Reset
  BY <1>1, <1>2, <1>4 DEF Reset
<1>5. CASE Stop
  BY <1>0, <1>1, <1>5 DEF Stop
<1>6. ASSUME UNCHANGED net, mProtocol' \in {mProtocol} \cup Protocols PROVE Net
  BY <1>0, <1>6 DEF net
<1>7. CASE UNCHANGED devVars
  BY <1>6, <1>7 DEF devVars
<1>8. CASE EventUIIdle \/ EventEditProtocol \/ UIConfigure \/ FbxStore \/ DeviceIONotify
  BY <1>6, <1>8 DEF EventUIIdle, EventEditProtocol, UIConfigure, FbxStore, DeviceIONotify
<1>9. CASE \/ \E selected \in SeqOf(Models, MaxItems) \ {<<>>} : EventAdd(selected)
           \/ \E id \in 1 .. MaxItems : EventDel(id) \/ EventEditSubject(id)
           \/ \E gone \in SUBSET Models : FbxRetrieve(gone)
  <2>1. UNCHANGED net /\ mProtocol' \in {mProtocol} \cup Protocols
    BY <1>9 DEF EventAdd, EventDel, EventEditSubject, FbxRetrieve
  <2> QED
    BY <1>6, <2>1
<1> QED
  BY <1>3, <1>4, <1>5, <1>7, <1>8, <1>9 DEF DevNext

\* The layout and the scene file add no more than is chosen or stored.
LEMMA LengthsStep == RowsInv /\ DeviceTyped /\ [DevNext]_devVars =>
    Len(Items') <= MaxItems /\ Len(file') <= MaxItems
<1> SUFFICES ASSUME RowsInv, DeviceTyped, [DevNext]_devVars
             PROVE  Len(Items') <= MaxItems /\ Len(file') <= MaxItems
  OBVIOUS
<1>0. /\ Items \in Seq(Subject) /\ file \in Seq(Subject) /\ MaxItems \in Nat
      /\ Len(Items) \in Nat /\ Len(file) \in Nat
      /\ Len(Items) <= MaxItems /\ Len(file) <= MaxItems
  BY DeviceAssumption DEF RowsInv, Extensions, DeviceTyped
<1>1. ASSUME UNCHANGED ui PROVE Len(Items') <= MaxItems /\ Len(file') <= MaxItems
  BY <1>0, <1>1 DEF ui
<1>2. ASSUME NEW selected \in SeqOf(Models, MaxItems), EventAdd(selected)
      PROVE  Len(Items') <= MaxItems /\ Len(file') <= MaxItems
  <2>1. selected \in Seq(Models) /\ Len(selected) \in Nat
    BY DEF SeqOf
  <2>2. /\ Items' = FoldLeft(AddItem, Items, selected) /\ file' = file
        /\ Len(Items) + Len(selected) <= MaxItems
    BY <1>2 DEF EventAdd
  <2>3. /\ Items' \in Extensions(Items) /\ Len(Items') <= Len(Items) + Len(selected)
    BY <1>0, <2>1, <2>2, BehindItself, ItemsAdded
  <2>4. Len(Items') \in Nat
    BY <2>3 DEF Extensions
  <2> QED
    BY <1>0, <2>1, <2>2, <2>3, <2>4
<1>3. ASSUME NEW id \in 1 .. MaxItems, EventDel(id)
      PROVE  Len(Items') <= MaxItems /\ Len(file') <= MaxItems
  <2>1. id \in 1 .. Len(Items) /\ Items' = RemoveAt(Items, id) /\ file' = file
    BY <1>0, <1>3 DEF EventDel
  <2>2. Len(Items') = Len(Items) - 1
    BY <1>0, <2>1, RemoveAtFacts
  <2> QED
    BY <1>0, <2>1, <2>2
<1>4. ASSUME NEW id \in 1 .. MaxItems, EventEditSubject(id)
      PROVE  Len(Items') <= MaxItems /\ Len(file') <= MaxItems
  <2>1. PICK name \in ItemNames : Items' = [Items EXCEPT ![id].mName = name]
    BY <1>4 DEF EventEditSubject
  <2>2. Len(Items') = Len(Items)
    BY <1>0, <2>1
  <2> QED
    BY <1>0, <1>4, <2>2 DEF EventEditSubject
<1>5. CASE UIConfigure
  BY <1>0, <1>5 DEF UIConfigure
<1>6. CASE FbxStore
  BY <1>0, <1>6 DEF FbxStore
<1>7. ASSUME NEW gone \in SUBSET Models, FbxRetrieve(gone)
      PROVE  Len(Items') <= MaxItems /\ Len(file') <= MaxItems
  <2>1. /\ Items' = Retrieved(Items, file, gone) /\ file' = file
        /\ Len(Items) + Len(file) <= MaxItems
    BY <1>7 DEF FbxRetrieve
  <2>2. Items' \in Extensions(Items) /\ Len(Items') <= Len(Items) + Len(file)
    BY <1>0, <2>1, BehindItself, ItemsRetrieved
  <2>3. Len(Items') \in Nat
    BY <2>2 DEF Extensions
  <2> QED
    BY <1>0, <2>1, <2>2, <2>3
<1>8. CASE Start \/ Stop \/ Reset \/ EventEditProtocol \/ DeviceIONotify
  BY <1>1, <1>8 DEF Start, Stop, Reset, StartAny, EventEditProtocol, DeviceIONotify
<1>9. CASE UNCHANGED devVars
  BY <1>1, <1>9 DEF devVars
<1>10. CASE EventUIIdle
  BY <1>0, <1>10 DEF EventUIIdle
<1> QED
  BY <1>2, <1>3, <1>4, <1>5, <1>6, <1>7, <1>8, <1>9, <1>10 DEF DevNext

\* The controls are enabled or not.
LEMMA EditableStep == editable \in BOOLEAN /\ Online \in BOOLEAN /\ [DevNext]_devVars =>
    editable' \in BOOLEAN
<1> SUFFICES ASSUME editable \in BOOLEAN, Online \in BOOLEAN, [DevNext]_devVars
             PROVE  editable' \in BOOLEAN
  OBVIOUS
<1>1. CASE EventUIIdle
  BY <1>1 DEF EventUIIdle
<1>2. ~EventUIIdle => UNCHANGED editable
  BY DEF DevNext, devVars, ui, Start, Stop, Reset, StartAny, EventEditProtocol, UIConfigure,
     FbxStore, EventAdd, EventDel, EventEditSubject, FbxRetrieve, DeviceIONotify
<1> QED
  BY <1>1, <1>2

\* What is known of the device together.
DevInv == RowsInv /\ DeviceTyped /\ FramesTyped

\* DevInv holds of a device that is off.
LEMMA DevInitial == DevInit => DevInv
BY RowsInitial, DeviceInitial, FramesInitial DEF DevInv

\* Every step of the MotionBuilder device keeps DevInv.
LEMMA DevStep == DevInv /\ [DevNext]_devVars => DevInv'
<1> SUFFICES ASSUME DevInv, [DevNext]_devVars PROVE DevInv'
  OBVIOUS
<1>1. RowsInv' /\ FramesTyped'
  BY RowsStep, FramesStep DEF DevInv
<1>2. /\ mProtocol' \in Protocols /\ mNetworkSocket' \in {"none", "junk", "udp"}
      /\ mTcpIp' \in BOOLEAN /\ mServer' \in BOOLEAN /\ Online' \in BOOLEAN
  BY NetStep DEF DevInv
<1>3. Len(Items') <= MaxItems /\ Len(file') <= MaxItems
  BY LengthsStep DEF DevInv
<1>4. editable' \in BOOLEAN
  BY EditableStep DEF DevInv, DeviceTyped
<1> QED
  BY <1>1, <1>2, <1>3, <1>4 DEF DevInv, DeviceTyped

\* The device makes one full packet in its life, whatever is started, stopped and
\* edited meanwhile, and it never writes more frames than it is notified of.
THEOREM DevTyped == DevSpec => []DevTypeOK
<1>1. DevInv => DevTypeOK
  <2> SUFFICES ASSUME DevInv PROVE DevTypeOK
    OBVIOUS
  <2>1. {Items, shownItems, file} \subseteq Seq(Subject)
    BY DEF DevInv, RowsInv, Extensions
  <2>2. notified <= MaxFrames /\ written <= notified /\ fulls <= 1
    BY DeviceAssumption DEF DevInv, FramesTyped
  <2> QED
    BY <2>1, <2>2 DEF DevInv, DeviceTyped, DevTypeOK
<1> QED
  BY <1>1, DevInitial, DevStep, PTL DEF DevSpec

-----------------------------------------------------------------------------
(* The tree of the scene.                                                  *)

Nameless(n) == scene.ns[n] = ""

\* Each node's parent has a smaller number, the root has no namespace.
SceneShaped ==
    /\ scene.parent \in [1 .. NumNodes -> Nodes]
    /\ \A n \in 1 .. NumNodes : scene.parent[n] < n
    /\ Nameless(0) /\ \A n \in Nodes : ~Nameless(n) => scene.ns[n] \in Namespaces

\* The nodes above the root are none; those above another are its parent and those above its parent.
LEMMA AboveFacts ==
    ASSUME SceneShaped
    PROVE  /\ Above[0] = {}
           /\ \A n \in 1 .. NumNodes : Above[n] = {scene.parent[n]} \cup Above[scene.parent[n]]
           /\ \A n \in Nodes : Above[n] \subseteq Nodes
<1> DEFINE G == [p \in [Nodes -> SUBSET Nodes] \X Nodes |->
                   IF p[2] = 0 THEN {} ELSE {scene.parent[p[2]]} \cup p[1][scene.parent[p[2]]]]
           rank == [n \in Nodes |-> n]
           Solved(f) == f = [n \in Nodes |-> IF n = 0 THEN {} ELSE {scene.parent[n]} \cup f[scene.parent[n]]]
<1>0. NumNodes \in Nat
  BY SceneAssumption
<1>1. \A n \in Nodes : n # 0 => scene.parent[n] \in Nodes /\ scene.parent[n] < n
  <2>1. \A n \in Nodes : n # 0 => n \in 1 .. NumNodes
    BY <1>0 DEF Nodes
  <2> QED
    BY <2>1 DEF SceneShaped
<1>2. ASSUME NEW f \in [Nodes -> SUBSET Nodes], NEW n \in Nodes
      PROVE  /\ G[<<f, n>>] = IF n = 0 THEN {} ELSE {scene.parent[n]} \cup f[scene.parent[n]]
             /\ G[<<f, n>>] \in SUBSET Nodes
  BY <1>1, <1>2
<1>3. rank \in [Nodes -> 0 .. NumNodes] /\ \A n \in Nodes : rank[n] = n
  BY <1>0 DEF Nodes
<1> HIDE DEF G, rank
<1>4. LooksBelow(G, Nodes, SUBSET Nodes, rank)
  <2>1. ASSUME NEW f \in [Nodes -> SUBSET Nodes], NEW g \in [Nodes -> SUBSET Nodes],
               NEW n \in Nodes, \A m \in Nodes : rank[m] < rank[n] => f[m] = g[m]
        PROVE  G[<<f, n>>] = G[<<g, n>>]
    <3>1. n # 0 => f[scene.parent[n]] = g[scene.parent[n]]
      BY <1>1, <1>3, <2>1
    <3>2. /\ G[<<f, n>>] = IF n = 0 THEN {} ELSE {scene.parent[n]} \cup f[scene.parent[n]]
          /\ G[<<g, n>>] = IF n = 0 THEN {} ELSE {scene.parent[n]} \cup g[scene.parent[n]]
      BY <1>2, Zenon
    <3> QED
      BY <3>1, <3>2, Zenon
  <2> QED
    BY <2>1 DEF LooksBelow
<1>5. StaysWithin(G, Nodes, SUBSET Nodes)
  BY <1>2 DEF StaysWithin
<1>6. {} \in SUBSET Nodes
  OBVIOUS
<1>7. PICK f \in [Nodes -> SUBSET Nodes] : Solves(f, Nodes, G)
  BY <1>0, <1>3, <1>4, <1>5, <1>6, RecursionExists
<1>8. Solved(f)
  BY <1>2, <1>7 DEF Solves
<1>9. Above = CHOOSE g : Solved(g)
  BY DEF Above
<1> HIDE DEF Solved
<1>10. Solved(Above)
  BY <1>8, <1>9, Zenon
<1>11. Above = [n \in Nodes |-> IF n = 0 THEN {} ELSE {scene.parent[n]} \cup Above[scene.parent[n]]]
  BY <1>10 DEF Solved
<1>12. \A n \in Nodes :
         Above[n] = IF n = 0 THEN {} ELSE {scene.parent[n]} \cup Above[scene.parent[n]]
  BY <1>11
<1>13. 0 \in Nodes /\ \A n \in 1 .. NumNodes : n \in Nodes /\ n # 0
  BY <1>0 DEF Nodes
<1> DEFINE T == {k \in Nat : \A n \in Nodes : n < k => Above[n] \subseteq Nodes}
<1>14. 0 \in T
  BY DEF Nodes
<1>15. ASSUME NEW k \in Nat, k \in T PROVE k + 1 \in T
  <2>1. ASSUME NEW n \in Nodes, n < k + 1 PROVE Above[n] \subseteq Nodes
    <3>1. n # 0 => scene.parent[n] \in Nodes /\ scene.parent[n] < k
      BY <1>0, <1>1, <2>1 DEF Nodes
    <3> QED
      BY <1>12, <1>15, <3>1
  <2> QED
    BY <2>1
<1> HIDE DEF T
<1>16. Nat \subseteq T
  BY <1>14, <1>15, SetInduction
<1>17. \A n \in Nodes : Above[n] \subseteq Nodes
  <2>1. NumNodes + 1 \in T /\ \A n \in Nodes : n < NumNodes + 1
    BY <1>0, <1>16 DEF Nodes
  <2> QED
    BY <2>1 DEF T
<1> QED
  BY <1>12, <1>13, <1>17

-----------------------------------------------------------------------------
(* The recursion of ListChildren.                                          *)

ListCalls == Nodes \X Seq(SceneItems) \X Int

\* What a call makes of the items so far, where f makes its calls.
ListBody(f, call) ==
    LET node  == call[1]
        items == call[2]
        follow(its, child) ==
            IF Follows(child, node) THEN f[<<child, its, Len(items)>>] ELSE its
    IN  FoldLeft(follow, Append(items, [node |-> node, parentId |-> call[3]]), Below)

OwnItem(call) == [node |-> call[1], parentId |-> call[3]]

\* h[k] are the items when the loop of the call has looked at the first k nodes.
ListSteps(h, f, call) ==
    /\ h \in [0 .. NumNodes -> Seq(SceneItems)]
    /\ h[0] = Append(call[2], OwnItem(call))
    /\ \A k \in 1 .. NumNodes :
         h[k] = IF Follows(k, call[1]) THEN f[<<k, h[k - 1], Len(call[2])>>] ELSE h[k - 1]
    /\ ListBody(f, call) = h[NumNodes]

\* g folds the places of the nodes.
ListFolds(g, f, call) ==
    g = [s \in SUBSET (1 .. NumNodes) |->
           IF s = {} THEN Append(call[2], OwnItem(call))
           ELSE IF Follows(Below[Max(s)], call[1])
           THEN f[<<Below[Max(s)], g[s \ {Max(s)}], Len(call[2])>>] ELSE g[s \ {Max(s)}]]

\* f has items for each call that the loop makes.
ListAnswers(f, call) ==
    \A d \in ListCalls : d[1] # 0 /\ Follows(d[1], call[1]) => f[d] \in Seq(SceneItems)

\* The loop over a node's children in ListChildren goes through one list per child.
LEMMA ListLoop ==
    ASSUME NEW call \in ListCalls, NEW f, ListAnswers(f, call)
    PROVE  \E h : ListSteps(h, f, call)
<1> DEFINE n == NumNodes
           A == Seq(SceneItems)
           base == Append(call[2], OwnItem(call))
           Step(its, k) == IF Follows(k, call[1]) THEN f[<<k, its, Len(call[2])>>] ELSE its
           G == [p \in A \X (1 .. n) |-> Step(p[1], p[2])]
<1>1. n \in Nat /\ DOMAIN Below = 1 .. n /\ (\A k \in 1 .. n : Below[k] = k /\ k \in Nodes)
  BY SceneAssumption DEF Below, Nodes
<1>2. call[1] \in Nodes /\ call[2] \in A /\ call[3] \in Int /\ Len(call[2]) \in Int
  BY DEF ListCalls
<1>3. ASSUME NEW its \in A, NEW k \in 1 .. n
      PROVE  G[<<its, k>>] = Step(its, k) /\ Step(its, k) \in A
  <2>1. <<k, its, Len(call[2])>> \in ListCalls /\ k # 0
    BY <1>1, <1>2 DEF ListCalls
  <2> QED
    BY <2>1 DEF ListAnswers
<1>4. base \in A
  <2>1. OwnItem(call) \in SceneItems
    BY <1>2 DEF OwnItem, SceneItems
  <2> QED
    BY <1>2, <2>1
<1> HIDE DEF n, A, G, base
<1>5. PICK g \in [SUBSET (1 .. n) -> A] : Folds(g, n, base, G)
  <2>1. \A its \in A : \A k \in 1 .. n : G[<<its, k>>] \in A
    BY <1>3
  <2> QED
    BY <1>1, <1>4, <2>1, FoldExists, Zenon
<1>6. ListFolds(g, f, call)
  <2>1. ASSUME NEW s \in SUBSET (1 .. n)
        PROVE  g[s] = IF s = {} THEN base
                      ELSE IF Follows(Below[Max(s)], call[1])
                      THEN f[<<Below[Max(s)], g[s \ {Max(s)}], Len(call[2])>>] ELSE g[s \ {Max(s)}]
    <3>1. g[s] = IF s = {} THEN base ELSE G[<<g[s \ {Max(s)}], Max(s)>>]
      BY <1>5 DEF Folds
    <3>2. s # {} => Max(s) \in 1 .. n /\ g[s \ {Max(s)}] \in A
      BY <1>1, <1>5, GreatestFacts
    <3>3. s # {} => Below[Max(s)] = Max(s)
      BY <1>1, <3>2
    <3> QED
      BY <1>3, <3>1, <3>2, <3>3
  <2>2. g = [s \in SUBSET (1 .. n) |->
               IF s = {} THEN base
               ELSE IF Follows(Below[Max(s)], call[1])
               THEN f[<<Below[Max(s)], g[s \ {Max(s)}], Len(call[2])>>] ELSE g[s \ {Max(s)}]]
    BY <1>5, <2>1
  <2> QED
    BY <2>2 DEF ListFolds, n, base
<1> DEFINE t == CHOOSE h : ListFolds(h, f, call)
<1>7. ListFolds(t, f, call)
  BY <1>6, Zenon
<1>8. ListBody(f, call) = t[1 .. n]
  BY <1>1 DEF ListBody, FoldLeft, MapThenFoldSet, ListFolds, OwnItem, n
<1> HIDE DEF t
<1>9. t[{}] = base /\ \A k \in 1 .. n : t[1 .. k] = Step(t[1 .. k - 1], k)
  <2>1. t = [s \in SUBSET (1 .. n) |->
           IF s = {} THEN base
           ELSE IF Follows(Below[Max(s)], call[1])
           THEN f[<<Below[Max(s)], t[s \ {Max(s)}], Len(call[2])>>] ELSE t[s \ {Max(s)}]]
    BY <1>7 DEF ListFolds, n, base
  <2>2. \A s \in SUBSET (1 .. n) :
          t[s] = IF s = {} THEN base
           ELSE IF Follows(Below[Max(s)], call[1])
           THEN f[<<Below[Max(s)], t[s \ {Max(s)}], Len(call[2])>>] ELSE t[s \ {Max(s)}]
    BY <2>1
  <2>3. {} \in SUBSET (1 .. n) /\ t[{}] = base
    BY <2>2
  <2>4. ASSUME NEW k \in 1 .. n PROVE t[1 .. k] = Step(t[1 .. k - 1], k)
    <3>1. /\ 1 .. k # {} /\ 1 .. k \in SUBSET (1 .. n)
          /\ Max(1 .. k) = k /\ (1 .. k) \ {k} = 1 .. k - 1
      BY <1>1, <2>4, PlaceFacts
    <3>2. Below[k] = k
      BY <1>1, <2>4
    <3> QED
      BY <2>2, <3>1, <3>2
  <2> QED
    BY <2>3, <2>4
<1> DEFINE h == [k \in 0 .. n |-> t[1 .. k]]
<1>10. h[0] = base /\ h[n] = t[1 .. n] /\ \A k \in 1 .. n : h[k] = Step(h[k - 1], k)
  <2>1. 1 .. 0 = {} /\ 0 \in 0 .. n /\ n \in 0 .. n
    BY <1>1
  <2>2. \A k \in 1 .. n : k \in 0 .. n /\ k - 1 \in 0 .. n
    BY <1>1
  <2> QED
    BY <1>9, <2>1, <2>2
<1>11. \A k \in 0 .. n : h[k] \in A
  <2> DEFINE T == {k \in Nat : k <= n => h[k] \in A}
  <2> HIDE DEF h, Step
  <2>1. 0 \in T
    BY <1>4, <1>10
  <2>2. ASSUME NEW k \in Nat, k \in T PROVE k + 1 \in T
    <3>0. SUFFICES ASSUME k + 1 <= n PROVE h[k + 1] \in A
      OBVIOUS
    <3>1. k <= n /\ k + 1 \in 1 .. n /\ (k + 1) - 1 = k
      BY <1>1, <3>0
    <3>2. h[k] \in A /\ h[k + 1] = Step(h[k], k + 1)
      BY <1>10, <2>2, <3>1
    <3> QED
      BY <1>3, <3>1, <3>2
  <2> HIDE DEF T
  <2>3. Nat \subseteq T
    BY <2>1, <2>2, SetInduction
  <2> QED
    BY <1>1, <2>3 DEF T
<1>12. h \in [0 .. n -> A]
  BY <1>11
<1> HIDE DEF h
<1>13. ListSteps(h, f, call)
  BY <1>8, <1>10, <1>12 DEF ListSteps, n, A, base
<1> QED
  BY <1>13

\* The steps of two loops whose calls agree are the same.
LEMMA ListAgrees ==
    ASSUME NEW call \in ListCalls, NEW f, NEW g, ListAnswers(f, call),
           \A d \in ListCalls : d[1] # 0 /\ Follows(d[1], call[1]) => f[d] = g[d]
    PROVE  ListBody(f, call) = ListBody(g, call)
<1> DEFINE n == NumNodes
<1>1. n \in Nat /\ Len(call[2]) \in Int /\ \A k \in 1 .. n : k \in Nodes /\ k # 0
  BY SceneAssumption DEF ListCalls, Nodes
<1>2. PICK h : ListSteps(h, f, call)
  BY ListLoop
<1>3. PICK j : ListSteps(j, g, call)
  BY ListLoop DEF ListAnswers
<1> DEFINE T == {k \in Nat : k <= n => h[k] = j[k]}
<1>4. 0 \in T
  BY <1>2, <1>3 DEF ListSteps
<1>5. ASSUME NEW k \in Nat, k \in T PROVE k + 1 \in T
  <2>0. SUFFICES ASSUME k + 1 <= n PROVE h[k + 1] = j[k + 1]
    OBVIOUS
  <2>1. k <= n /\ k + 1 \in 1 .. n /\ (k + 1) - 1 = k /\ k \in 0 .. n
    BY <1>1, <2>0
  <2>2. h[k] = j[k] /\ h[k] \in Seq(SceneItems)
    BY <1>2, <1>5, <2>1 DEF ListSteps
  <2>3. <<k + 1, h[k], Len(call[2])>> \in ListCalls /\ k + 1 # 0
    BY <1>1, <2>1, <2>2 DEF ListCalls
  <2>4. Follows(k + 1, call[1]) => f[<<k + 1, h[k], Len(call[2])>>] = g[<<k + 1, h[k], Len(call[2])>>]
    BY <2>3
  <2>5. h[k + 1] = IF Follows(k + 1, call[1]) THEN f[<<k + 1, h[k], Len(call[2])>>] ELSE h[k]
    BY <1>2, <2>1 DEF ListSteps
  <2>6. j[k + 1] = IF Follows(k + 1, call[1]) THEN g[<<k + 1, h[k], Len(call[2])>>] ELSE h[k]
    BY <1>3, <2>1, <2>2 DEF ListSteps
  <2> QED
    BY <2>4, <2>5, <2>6
<1> HIDE DEF T
<1>6. Nat \subseteq T
  BY <1>4, <1>5, SetInduction
<1>7. h[n] = j[n]
  BY <1>1, <1>6 DEF T
<1> QED
  BY <1>2, <1>3, <1>7 DEF ListSteps

\* The children have larger numbers.
LEMMA ChildIsLarger ==
    ASSUME SceneShaped, NEW n \in Nodes, NEW c \in Nodes, c # 0, scene.parent[c] = n
    PROVE  n < c
<1>1. c \in 1 .. NumNodes
  BY SceneAssumption DEF Nodes
<1> QED
  BY <1>1 DEF SceneShaped

\* Each call makes the calls of its children.
LEMMA ListChildrenFacts ==
    ASSUME SceneShaped
    PROVE  /\ ListChildren \in [ListCalls -> Seq(SceneItems)]
           /\ \A call \in ListCalls : ListChildren[call] = ListBody(ListChildren, call)
<1> DEFINE n == NumNodes
           A == Seq(SceneItems)
           D == ListCalls
           G == [p \in [D -> A] \X D |-> ListBody(p[1], p[2])]
           rank == [d \in D |-> n - d[1]]
           Solved(f) == f = [call \in D |-> ListBody(f, call)]
<1>1. n \in Nat /\ \A d \in D : d[1] \in 0 .. n /\ d[1] \in Nodes
  BY SceneAssumption DEF Nodes, ListCalls
<1>2. \A f \in [D -> A] : \A d \in D : G[<<f, d>>] = ListBody(f, d)
  OBVIOUS
<1>3. \A f : \A d \in D : ListAnswers(f, d) => ListBody(f, d) \in A
  <2>1. ASSUME NEW f, NEW d \in D, ListAnswers(f, d) PROVE ListBody(f, d) \in A
    <3>1. PICK h : ListSteps(h, f, d)
      BY <2>1, ListLoop
    <3>2. n \in 0 .. n
      BY <1>1
    <3> QED
      BY <3>1, <3>2 DEF ListSteps
  <2> QED
    BY <2>1
<1>4. rank \in [D -> 0 .. n] /\ \A d \in D : rank[d] = n - d[1]
  BY <1>1
<1> HIDE DEF G, rank
<1>5. ASSUME NEW d \in D, NEW e \in D, e[1] # 0, Follows(e[1], d[1]) PROVE rank[e] < rank[d]
  <2>1. d[1] < e[1]
    BY <1>1, <1>5, ChildIsLarger DEF Follows
  <2> QED
    BY <1>1, <1>4, <2>1
<1>6. StaysWithin(G, D, A)
  BY <1>2, <1>3 DEF StaysWithin, ListAnswers
<1>7. LooksBelow(G, D, A, rank)
  <2>1. ASSUME NEW f \in [D -> A], NEW g \in [D -> A], NEW d \in D,
               \A e \in D : rank[e] < rank[d] => f[e] = g[e]
        PROVE  G[<<f, d>>] = G[<<g, d>>]
    <3>1. ListAnswers(f, d)
      BY DEF ListAnswers
    <3>2. \A e \in D : e[1] # 0 /\ Follows(e[1], d[1]) => f[e] = g[e]
      BY <1>5, <2>1
    <3>3. ListBody(f, d) = ListBody(g, d)
      BY <3>1, <3>2, ListAgrees
    <3> QED
      BY <1>2, <3>3
  <2> QED
    BY <2>1 DEF LooksBelow
<1>8. <<>> \in A
  OBVIOUS
<1>9. PICK f \in [D -> A] : Solves(f, D, G)
  BY <1>1, <1>4, <1>6, <1>7, <1>8, RecursionExists
<1>10. Solved(f)
  BY <1>2, <1>9 DEF Solves
<1>11. ListChildren = CHOOSE g : Solved(g)
  BY DEF ListChildren, ListBody, ListCalls
<1> HIDE DEF Solved
<1>12. Solved(ListChildren)
  BY <1>10, <1>11, Zenon
<1>13. ListChildren = [call \in D |-> ListBody(ListChildren, call)]
  BY <1>12 DEF Solved
<1>14. \A call \in D : ListChildren[call] = ListBody(ListChildren, call)
  BY <1>13
<1> DEFINE T == {k \in Nat : \A d \in D : rank[d] < k => ListChildren[d] \in A}
<1>15. 0 \in T
  BY <1>4
<1>16. ASSUME NEW k \in Nat, k \in T PROVE k + 1 \in T
  <2>1. ASSUME NEW d \in D, rank[d] < k + 1 PROVE ListChildren[d] \in A
    <3>1. ASSUME NEW e \in D, e[1] # 0, Follows(e[1], d[1]) PROVE ListChildren[e] \in A
      <4>1. rank[e] < rank[d] /\ rank[e] \in 0 .. n /\ rank[d] \in 0 .. n
        BY <1>4, <1>5, <3>1
      <4>2. rank[e] < k
        BY <1>1, <2>1, <4>1
      <4> QED
        BY <1>16, <4>2
    <3>2. ListAnswers(ListChildren, d)
      BY <3>1 DEF ListAnswers
    <3> QED
      BY <1>3, <1>14, <3>2
  <2> QED
    BY <2>1
<1> HIDE DEF T
<1>17. Nat \subseteq T
  BY <1>15, <1>16, SetInduction
<1>18. \A d \in D : ListChildren[d] \in A
  <2>1. n + 1 \in T /\ \A d \in D : rank[d] < n + 1
    BY <1>1, <1>4, <1>17
  <2> QED
    BY <2>1 DEF T
<1> QED
  BY <1>13, <1>14, <1>18

-----------------------------------------------------------------------------
(* The recursion of FindSubjects, which is the same.                       *)

FindCalls == Nodes \X Seq(SceneSubjects)

\* The loop of a call, where f makes its calls.
FindBody(f, call) ==
    LET node == call[1]
        find(subjects, child) ==
            IF scene.parent[child] = node THEN f[<<child, subjects>>] ELSE subjects
    IN  FoldLeft(find, call[2], Below)

\* The subject that a node without more ado is.
SubjectAt(node) == [mName |-> scene.ns[node], mItems |-> ListChildren[<<node, <<>>, -1>>]]

\* h[k] are the subjects when the loop of the call has looked at the first k nodes.
FindSteps(h, f, call) ==
    /\ h \in [0 .. NumNodes -> Seq(SceneSubjects)]
    /\ h[0] = call[2]
    /\ \A k \in 1 .. NumNodes :
         h[k] = IF scene.parent[k] = call[1] THEN f[<<k, h[k - 1]>>] ELSE h[k - 1]
    /\ FindBody(f, call) = h[NumNodes]

\* g folds the places of the nodes.
FindFolds(g, f, call) ==
    g = [s \in SUBSET (1 .. NumNodes) |->
           IF s = {} THEN call[2]
           ELSE IF scene.parent[Below[Max(s)]] = call[1]
           THEN f[<<Below[Max(s)], g[s \ {Max(s)}]>>] ELSE g[s \ {Max(s)}]]

\* f has subjects for each call that the loop makes.
FindAnswers(f, call) ==
    \A d \in FindCalls : d[1] # 0 /\ scene.parent[d[1]] = call[1] => f[d] \in Seq(SceneSubjects)

\* The loop over a node's children in FindSubjects goes through one list per child.
LEMMA FindLoop ==
    ASSUME NEW call \in FindCalls, NEW f, FindAnswers(f, call)
    PROVE  \E h : FindSteps(h, f, call)
<1> DEFINE n == NumNodes
           A == Seq(SceneSubjects)
           base == call[2]
           Step(subs, k) == IF scene.parent[k] = call[1] THEN f[<<k, subs>>] ELSE subs
           G == [p \in A \X (1 .. n) |-> Step(p[1], p[2])]
<1>1. n \in Nat /\ DOMAIN Below = 1 .. n /\ (\A k \in 1 .. n : Below[k] = k /\ k \in Nodes)
  BY SceneAssumption DEF Below, Nodes
<1>2. call[1] \in Nodes /\ call[2] \in A
  BY DEF FindCalls
<1>3. ASSUME NEW subs \in A, NEW k \in 1 .. n
      PROVE  G[<<subs, k>>] = Step(subs, k) /\ Step(subs, k) \in A
  <2>1. <<k, subs>> \in FindCalls /\ k # 0
    BY <1>1, <1>2 DEF FindCalls
  <2> QED
    BY <2>1 DEF FindAnswers
<1>4. base \in A
  BY <1>2
<1> HIDE DEF n, A, G, base
<1>5. PICK g \in [SUBSET (1 .. n) -> A] : Folds(g, n, base, G)
  <2>1. \A subs \in A : \A k \in 1 .. n : G[<<subs, k>>] \in A
    BY <1>3
  <2> QED
    BY <1>1, <1>4, <2>1, FoldExists, Zenon
<1>6. FindFolds(g, f, call)
  <2>1. ASSUME NEW s \in SUBSET (1 .. n)
        PROVE  g[s] = IF s = {} THEN base
                      ELSE IF scene.parent[Below[Max(s)]] = call[1]
                      THEN f[<<Below[Max(s)], g[s \ {Max(s)}]>>] ELSE g[s \ {Max(s)}]
    <3>1. g[s] = IF s = {} THEN base ELSE G[<<g[s \ {Max(s)}], Max(s)>>]
      BY <1>5 DEF Folds
    <3>2. ASSUME s # {}
          PROVE  g[s] = IF scene.parent[Below[Max(s)]] = call[1]
                        THEN f[<<Below[Max(s)], g[s \ {Max(s)}]>>] ELSE g[s \ {Max(s)}]
      <4> DEFINE m == Max(s)
                 q == g[s \ {Max(s)}]
      <4>1. m \in 1 .. n /\ q \in A
        BY <1>1, <1>5, <3>2, GreatestFacts
      <4>2. g[s] = G[<<q, m>>]
        BY <3>1, <3>2
      <4> HIDE DEF m, q
      <4>3. Below[m] = m
        BY <1>1, <4>1
      <4>4. g[s] = IF scene.parent[m] = call[1] THEN f[<<m, q>>] ELSE q
        BY <1>3, <4>1, <4>2
      <4> QED
        BY <4>3, <4>4 DEF m, q
    <3> QED
      BY <3>1, <3>2
  <2>2. g = [s \in SUBSET (1 .. n) |->
               IF s = {} THEN base
               ELSE IF scene.parent[Below[Max(s)]] = call[1]
               THEN f[<<Below[Max(s)], g[s \ {Max(s)}]>>] ELSE g[s \ {Max(s)}]]
    BY <1>5, <2>1
  <2> QED
    BY <2>2 DEF FindFolds, n, base
<1> DEFINE t == CHOOSE h : FindFolds(h, f, call)
<1>7. FindFolds(t, f, call)
  BY <1>6, Zenon
<1>8. FindBody(f, call) = t[1 .. n]
  BY <1>1 DEF FindBody, FoldLeft, MapThenFoldSet, FindFolds, n
<1> HIDE DEF t
<1>9. t[{}] = base /\ \A k \in 1 .. n : t[1 .. k] = Step(t[1 .. k - 1], k)
  <2>1. t = [s \in SUBSET (1 .. n) |->
           IF s = {} THEN base
           ELSE IF scene.parent[Below[Max(s)]] = call[1]
           THEN f[<<Below[Max(s)], t[s \ {Max(s)}]>>] ELSE t[s \ {Max(s)}]]
    BY <1>7 DEF FindFolds, n, base
  <2>2. \A s \in SUBSET (1 .. n) :
          t[s] = IF s = {} THEN base
           ELSE IF scene.parent[Below[Max(s)]] = call[1]
           THEN f[<<Below[Max(s)], t[s \ {Max(s)}]>>] ELSE t[s \ {Max(s)}]
    BY <2>1
  <2>3. {} \in SUBSET (1 .. n) /\ t[{}] = base
    BY <2>2
  <2>4. ASSUME NEW k \in 1 .. n PROVE t[1 .. k] = Step(t[1 .. k - 1], k)
    <3>1. /\ 1 .. k # {} /\ 1 .. k \in SUBSET (1 .. n)
          /\ Max(1 .. k) = k /\ (1 .. k) \ {k} = 1 .. k - 1
      BY <1>1, <2>4, PlaceFacts
    <3>2. Below[k] = k
      BY <1>1, <2>4
    <3>3. t[1 .. k] = IF scene.parent[Below[Max(1 .. k)]] = call[1]
                      THEN f[<<Below[Max(1 .. k)], t[(1 .. k) \ {Max(1 .. k)}]>>]
                      ELSE t[(1 .. k) \ {Max(1 .. k)}]
      BY <2>2, <3>1
    <3> QED
      BY <3>1, <3>2, <3>3
  <2> QED
    BY <2>3, <2>4
<1> DEFINE h == [k \in 0 .. n |-> t[1 .. k]]
<1>10. h[0] = base /\ h[n] = t[1 .. n] /\ \A k \in 1 .. n : h[k] = Step(h[k - 1], k)
  <2>1. 1 .. 0 = {} /\ 0 \in 0 .. n /\ n \in 0 .. n
    BY <1>1
  <2>2. \A k \in 1 .. n : k \in 0 .. n /\ k - 1 \in 0 .. n
    BY <1>1
  <2> QED
    BY <1>9, <2>1, <2>2
<1>11. \A k \in 0 .. n : h[k] \in A
  <2> DEFINE T == {k \in Nat : k <= n => h[k] \in A}
  <2> HIDE DEF h, Step
  <2>1. 0 \in T
    BY <1>4, <1>10
  <2>2. ASSUME NEW k \in Nat, k \in T PROVE k + 1 \in T
    <3>0. SUFFICES ASSUME k + 1 <= n PROVE h[k + 1] \in A
      OBVIOUS
    <3>1. k <= n /\ k + 1 \in 1 .. n /\ (k + 1) - 1 = k
      BY <1>1, <3>0
    <3>2. h[k] \in A /\ h[k + 1] = Step(h[k], k + 1)
      BY <1>10, <2>2, <3>1
    <3> QED
      BY <1>3, <3>1, <3>2
  <2> HIDE DEF T
  <2>3. Nat \subseteq T
    BY <2>1, <2>2, SetInduction
  <2> QED
    BY <1>1, <2>3 DEF T
<1>12. h \in [0 .. n -> A]
  BY <1>11
<1> HIDE DEF h
<1>13. FindSteps(h, f, call)
  BY <1>8, <1>10, <1>12 DEF FindSteps, n, A, base
<1> QED
  BY <1>13

\* The steps of two loops whose calls agree are the same.
LEMMA FindAgrees ==
    ASSUME NEW call \in FindCalls, NEW f, NEW g, FindAnswers(f, call),
           \A d \in FindCalls : d[1] # 0 /\ scene.parent[d[1]] = call[1] => f[d] = g[d]
    PROVE  FindBody(f, call) = FindBody(g, call)
<1> DEFINE n == NumNodes
<1>1. n \in Nat /\ \A k \in 1 .. n : k \in Nodes /\ k # 0
  BY SceneAssumption DEF FindCalls, Nodes
<1>2. PICK h : FindSteps(h, f, call)
  BY FindLoop
<1>3. PICK j : FindSteps(j, g, call)
  BY FindLoop DEF FindAnswers
<1> DEFINE T == {k \in Nat : k <= n => h[k] = j[k]}
<1>4. 0 \in T
  BY <1>2, <1>3 DEF FindSteps
<1>5. ASSUME NEW k \in Nat, k \in T PROVE k + 1 \in T
  <2>0. SUFFICES ASSUME k + 1 <= n PROVE h[k + 1] = j[k + 1]
    OBVIOUS
  <2>1. k <= n /\ k + 1 \in 1 .. n /\ (k + 1) - 1 = k /\ k \in 0 .. n
    BY <1>1, <2>0
  <2>2. h[k] = j[k] /\ h[k] \in Seq(SceneSubjects)
    BY <1>2, <1>5, <2>1 DEF FindSteps
  <2>3. <<k + 1, h[k]>> \in FindCalls /\ k + 1 # 0
    BY <1>1, <2>1, <2>2 DEF FindCalls
  <2>4. scene.parent[k + 1] = call[1] => f[<<k + 1, h[k]>>] = g[<<k + 1, h[k]>>]
    BY <2>3
  <2>5. h[k + 1] = IF scene.parent[k + 1] = call[1] THEN f[<<k + 1, h[k]>>] ELSE h[k]
    BY <1>2, <2>1 DEF FindSteps
  <2>6. j[k + 1] = IF scene.parent[k + 1] = call[1] THEN g[<<k + 1, h[k]>>] ELSE h[k]
    BY <1>3, <2>1, <2>2 DEF FindSteps
  <2> QED
    BY <2>4, <2>5, <2>6
<1> HIDE DEF T
<1>6. Nat \subseteq T
  BY <1>4, <1>5, SetInduction
<1>7. h[n] = j[n]
  BY <1>1, <1>6 DEF T
<1> QED
  BY <1>2, <1>3, <1>7 DEF FindSteps

\* What a call makes of the subjects so far.
FindAt(f, call) ==
    IF Nameless(call[1]) THEN FindBody(f, call)
    ELSE IF call[1] \in scene.mesh THEN call[2] ELSE Append(call[2], SubjectAt(call[1]))

\* The subject made at a node with a name is a subject.
LEMMA SubjectAtType ==
    ASSUME SceneShaped, NEW node \in Nodes, ~Nameless(node)
    PROVE  SubjectAt(node) \in SceneSubjects
<1>1. <<node, <<>>, -1>> \in ListCalls
  <2>1. <<>> \in Seq(SceneItems)
    OBVIOUS
  <2>2. -1 \in Int
    OBVIOUS
  <2> QED
    BY <2>1, <2>2, Zenon DEF ListCalls
<1>2. ListChildren[<<node, <<>>, -1>>] \in Seq(SceneItems)
  BY <1>1, ListChildrenFacts
<1>3. scene.ns[node] \in Namespaces
  BY DEF SceneShaped
<1> QED
  BY <1>2, <1>3 DEF SubjectAt, SceneSubjects

\* Each call makes the calls of its children.
LEMMA FindSubjectsFacts ==
    ASSUME SceneShaped
    PROVE  /\ FindSubjects \in [FindCalls -> Seq(SceneSubjects)]
           /\ \A call \in FindCalls : FindSubjects[call] = FindAt(FindSubjects, call)
<1> DEFINE n == NumNodes
           A == Seq(SceneSubjects)
           D == FindCalls
           G == [p \in [D -> A] \X D |-> FindAt(p[1], p[2])]
           rank == [d \in D |-> n - d[1]]
           Solved(f) == f = [call \in D |-> FindAt(f, call)]
<1>1. n \in Nat /\ \A d \in D : d[1] \in 0 .. n /\ d[1] \in Nodes
  BY SceneAssumption DEF Nodes, FindCalls
<1>2. \A f \in [D -> A] : \A d \in D : G[<<f, d>>] = FindAt(f, d)
  OBVIOUS
<1>3. \A f : \A d \in D : FindAnswers(f, d) => FindAt(f, d) \in A
  <2>1. ASSUME NEW f, NEW d \in D, FindAnswers(f, d) PROVE FindAt(f, d) \in A
    <3>1. CASE Nameless(d[1])
      <4>1. PICK h : FindSteps(h, f, d)
        BY <2>1, FindLoop
      <4>2. n \in 0 .. n
        BY <1>1
      <4> QED
        BY <3>1, <4>1, <4>2 DEF FindSteps, FindAt
    <3>2. CASE ~Nameless(d[1])
      <4>1. d[1] \in Nodes /\ d[2] \in A
        BY DEF FindCalls
      <4>2. SubjectAt(d[1]) \in SceneSubjects
        BY <3>2, <4>1, SubjectAtType
      <4>3. Append(d[2], SubjectAt(d[1])) \in A
        BY <4>1, <4>2
      <4> QED
        BY <3>2, <4>1, <4>3 DEF FindAt
    <3> QED
      BY <3>1, <3>2
  <2> QED
    BY <2>1
<1>4. rank \in [D -> 0 .. n] /\ \A d \in D : rank[d] = n - d[1]
  BY <1>1
<1> HIDE DEF G, rank
<1>5. ASSUME NEW d \in D, NEW e \in D, e[1] # 0, scene.parent[e[1]] = d[1] PROVE rank[e] < rank[d]
  <2>1. d[1] < e[1]
    BY <1>1, <1>5, ChildIsLarger
  <2> QED
    BY <1>1, <1>4, <2>1
<1>6. StaysWithin(G, D, A)
  BY <1>2, <1>3 DEF StaysWithin, FindAnswers
<1>7. LooksBelow(G, D, A, rank)
  <2>1. ASSUME NEW f \in [D -> A], NEW g \in [D -> A], NEW d \in D,
               \A e \in D : rank[e] < rank[d] => f[e] = g[e]
        PROVE  G[<<f, d>>] = G[<<g, d>>]
    <3>1. FindAnswers(f, d)
      BY DEF FindAnswers
    <3>2. \A e \in D : e[1] # 0 /\ scene.parent[e[1]] = d[1] => f[e] = g[e]
      BY <1>5, <2>1
    <3>3. FindAt(f, d) = FindAt(g, d)
      BY <3>1, <3>2, FindAgrees DEF FindAt
    <3> QED
      BY <1>2, <3>3
  <2> QED
    BY <2>1 DEF LooksBelow
<1>8. <<>> \in A
  OBVIOUS
<1>9. PICK f \in [D -> A] : Solves(f, D, G)
  BY <1>1, <1>4, <1>6, <1>7, <1>8, RecursionExists
<1>10. Solved(f)
  BY <1>2, <1>9 DEF Solves
<1>11. FindSubjects = CHOOSE g : Solved(g)
  BY DEF FindSubjects, FindAt, FindBody, Nameless, SubjectAt, FindCalls
<1> HIDE DEF Solved
<1>12. Solved(FindSubjects)
  BY <1>10, <1>11, Zenon
<1>13. FindSubjects = [call \in D |-> FindAt(FindSubjects, call)]
  BY <1>12 DEF Solved
<1>14. \A call \in D : FindSubjects[call] = FindAt(FindSubjects, call)
  BY <1>13
<1> DEFINE T == {k \in Nat : \A d \in D : rank[d] < k => FindSubjects[d] \in A}
<1>15. 0 \in T
  BY <1>4
<1>16. ASSUME NEW k \in Nat, k \in T PROVE k + 1 \in T
  <2>1. ASSUME NEW d \in D, rank[d] < k + 1 PROVE FindSubjects[d] \in A
    <3>1. ASSUME NEW e \in D, e[1] # 0, scene.parent[e[1]] = d[1] PROVE FindSubjects[e] \in A
      <4>1. rank[e] < rank[d] /\ rank[e] \in 0 .. n /\ rank[d] \in 0 .. n
        BY <1>4, <1>5, <3>1
      <4>2. rank[e] < k
        BY <1>1, <2>1, <4>1
      <4> QED
        BY <1>16, <4>2
    <3>2. FindAnswers(FindSubjects, d)
      BY <3>1 DEF FindAnswers
    <3> QED
      BY <1>3, <1>14, <3>2
  <2> QED
    BY <2>1
<1> HIDE DEF T
<1>17. Nat \subseteq T
  BY <1>15, <1>16, SetInduction
<1>18. \A d \in D : FindSubjects[d] \in A
  <2>1. n + 1 \in T /\ \A d \in D : rank[d] < n + 1
    BY <1>1, <1>4, <1>17
  <2> QED
    BY <2>1 DEF T
<1> QED
  BY <1>13, <1>14, <1>18

-----------------------------------------------------------------------------
(* What is below a node is in the trees of its children, which are apart.  *)

Under(n) == {x \in Nodes : x = n \/ n \in Above[x]}

Kids(n) == {c \in 1 .. NumNodes : scene.parent[c] = n}

\* A node's parent comes before it and is the first of those above it.
LEMMA ParentFacts ==
    ASSUME SceneShaped, NEW x \in Nodes, x # 0
    PROVE  /\ scene.parent[x] \in Nodes /\ scene.parent[x] < x
           /\ Above[x] = {scene.parent[x]} \cup Above[scene.parent[x]]
<1>1. x \in 1 .. NumNodes
  BY SceneAssumption DEF Nodes
<1> QED
  BY <1>1, AboveFacts DEF SceneShaped

\* Induction over the nodes: a set that holds each node whose parent it holds.
LEMMA NodeInduction ==
    ASSUME SceneShaped, NEW T, 0 \in T,
           \A x \in Nodes : x # 0 /\ scene.parent[x] \in T => x \in T
    PROVE  Nodes \subseteq T
<1> DEFINE U == {k \in Nat : \A x \in Nodes : x < k => x \in T}
<1>0. \A x \in Nodes : x \in Nat
  BY SceneAssumption DEF Nodes
<1>1. 0 \in U
  BY <1>0
<1>2. ASSUME NEW k \in Nat, k \in U PROVE k + 1 \in U
  <2>1. ASSUME NEW x \in Nodes, x < k + 1, x # 0 PROVE x \in T
    <3>1. scene.parent[x] \in Nodes /\ scene.parent[x] < x
      BY <2>1, ParentFacts
    <3>2. scene.parent[x] < k
      BY <1>0, <2>1, <3>1
    <3> QED
      BY <1>2, <2>1, <3>1, <3>2
  <2> QED
    BY <2>1
<1> HIDE DEF U
<1>3. Nat \subseteq U
  BY <1>1, <1>2, SetInduction
<1>4. ASSUME NEW x \in Nodes PROVE x \in T
  <2>1. x + 1 \in Nat /\ x < x + 1
    BY <1>0
  <2> QED
    BY <1>3, <2>1 DEF U
<1> QED
  BY <1>4

\* What is above a node has a smaller number.
LEMMA AboveIsSmaller ==
    ASSUME SceneShaped
    PROVE  \A x \in Nodes : \A m \in Above[x] : m \in Nodes /\ m < x
<1> DEFINE T == {x \in Nodes : \A m \in Above[x] : m < x}
<1>0. \A x \in Nodes : x \in Nat /\ Above[x] \subseteq Nodes
  BY SceneAssumption, AboveFacts DEF Nodes
<1>1. 0 \in T
  BY SceneAssumption, AboveFacts DEF Nodes
<1>2. ASSUME NEW x \in Nodes, x # 0, scene.parent[x] \in T PROVE x \in T
  <2> DEFINE p == scene.parent[x]
  <2>1. p \in Nodes /\ p < x /\ Above[x] = {p} \cup Above[p]
    BY <1>2, ParentFacts
  <2>2. \A m \in Above[p] : m < p
    BY <1>2
  <2> HIDE DEF p
  <2>3. \A m \in Above[x] : m < x
    BY <1>0, <2>1, <2>2
  <2> QED
    BY <2>3
<1> HIDE DEF T
<1>3. Nodes \subseteq T
  BY <1>1, <1>2, NodeInduction
<1> QED
  BY <1>0, <1>3 DEF T

\* The root is above every other node.
LEMMA RootIsAbove ==
    ASSUME SceneShaped
    PROVE  \A x \in Nodes : x # 0 => 0 \in Above[x]
<1> DEFINE T == {x \in Nodes : x # 0 => 0 \in Above[x]}
<1>1. 0 \in T
  BY SceneAssumption DEF Nodes
<1>2. ASSUME NEW x \in Nodes, x # 0, scene.parent[x] \in T PROVE x \in T
  BY <1>2, ParentFacts
<1> HIDE DEF T
<1>3. Nodes \subseteq T
  BY <1>1, <1>2, NodeInduction
<1> QED
  BY <1>3 DEF T

\* A child's parent is the node, which comes before it.
LEMMA KidFacts ==
    ASSUME SceneShaped, NEW n \in Nodes, NEW c \in Kids(n)
    PROVE  /\ c \in Nodes /\ c \in 1 .. NumNodes /\ c # 0 /\ n < c /\ scene.parent[c] = n
           /\ Above[c] = {n} \cup Above[n]
<1>1. c \in Nodes /\ c \in 1 .. NumNodes /\ c # 0 /\ scene.parent[c] = n
  BY SceneAssumption DEF Kids, Nodes
<1> QED
  BY <1>1, ParentFacts

\* What is under a node is the node and what is under its children.
LEMMA UnderSplits ==
    ASSUME SceneShaped, NEW n \in Nodes
    PROVE  /\ Under(n) = {n} \cup UNION {Under(c) : c \in Kids(n)}
           /\ \A c \in Kids(n) : n \notin Under(c)
<1> DEFINE T == {x \in Nodes : n \in Above[x] => \E c \in Kids(n) : x \in Under(c)}
<1>1. 0 \in T
  BY SceneAssumption, AboveFacts DEF Nodes
<1>2. ASSUME NEW x \in Nodes, x # 0, scene.parent[x] \in T PROVE x \in T
  <2> DEFINE p == scene.parent[x]
  <2>0. SUFFICES ASSUME n \in Above[x] PROVE \E c \in Kids(n) : x \in Under(c)
    OBVIOUS
  <2>1. p \in Nodes /\ Above[x] = {p} \cup Above[p] /\ x \in 1 .. NumNodes
    BY <1>2, ParentFacts, SceneAssumption DEF Nodes
  <2>2. CASE n = p
    BY <2>1, <2>2 DEF Kids, Under
  <2>3. CASE n \in Above[p]
    <3>1. PICK c \in Kids(n) : p \in Under(c)
      BY <1>2, <2>3
    <3> QED
      BY <2>1, <3>1 DEF Under
  <2> QED
    BY <2>0, <2>1, <2>2, <2>3
<1> HIDE DEF T
<1>3. Nodes \subseteq T
  BY <1>1, <1>2, NodeInduction
<1>4. ASSUME NEW c \in Kids(n) PROVE Under(c) \subseteq Under(n) /\ n \notin Under(c)
  <2>1. c \in Nodes /\ n < c /\ n # c /\ Above[c] = {n} \cup Above[n]
    BY KidFacts, SceneAssumption DEF Nodes
  <2> DEFINE S == {x \in Nodes : c \in Above[x] => n \in Above[x]}
  <2>2. 0 \in S
    BY SceneAssumption, AboveFacts DEF Nodes
  <2>3. ASSUME NEW x \in Nodes, x # 0, scene.parent[x] \in S PROVE x \in S
    BY <2>1, <2>3, ParentFacts
  <2> HIDE DEF S
  <2>4. Nodes \subseteq S
    BY <2>2, <2>3, NodeInduction
  <2>5. \A x \in Nodes : c \in Above[x] => n \in Above[x]
    BY <2>4 DEF S
  <2>6. c \notin Above[n]
    BY <2>1, AboveIsSmaller, SceneAssumption DEF Nodes
  <2> QED
    BY <2>1, <2>5, <2>6 DEF Under
<1>5. \A x \in Under(n) : x = n \/ \E c \in Kids(n) : x \in Under(c)
  BY <1>3 DEF Under, T
<1>6. n \in Under(n)
  BY DEF Under
<1> QED
  BY <1>4, <1>5, <1>6

\* What is under two different children has no node in common.
LEMMA UnderApart ==
    ASSUME SceneShaped, NEW n \in Nodes, NEW c \in Kids(n), NEW d \in Kids(n), c # d
    PROVE  Under(c) \cap Under(d) = {}
<1> DEFINE T == {x \in Nodes : ~(x \in Under(c) /\ x \in Under(d))}
<1>0. /\ c \in Nodes /\ d \in Nodes /\ c # 0 /\ d # 0 /\ n < c /\ n < d
      /\ Above[c] = {n} \cup Above[n] /\ Above[d] = {n} \cup Above[n]
      /\ \A x \in Nodes : x \in Int
  BY KidFacts, SceneAssumption DEF Nodes
<1>1. d \notin Above[c] /\ c \notin Above[d]
  <2>1. \A m \in Above[n] : m < n /\ m \in Nodes
    BY AboveIsSmaller
  <2>2. ASSUME NEW m \in {n} \cup Above[n] PROVE m < c /\ m < d /\ m \in Nodes
    BY <1>0, <2>1, <2>2
  <2> QED
    BY <1>0, <2>2
<1>2. 0 \in T
  <2>1. 0 \in Nodes /\ Above[0] = {}
    BY SceneAssumption, AboveFacts DEF Nodes
  <2> QED
    BY <1>0, <2>1 DEF Under
<1>3. ASSUME NEW x \in Nodes, x # 0, scene.parent[x] \in T PROVE x \in T
  <2> DEFINE p == scene.parent[x]
  <2>1. p \in Nodes /\ Above[x] = {p} \cup Above[p] /\ ~(p \in Under(c) /\ p \in Under(d))
    BY <1>3, ParentFacts
  <2>2. x # c /\ x \in Under(c) => p \in Under(c)
    BY <2>1 DEF Under
  <2>3. x # d /\ x \in Under(d) => p \in Under(d)
    BY <2>1 DEF Under
  <2>4. ~(c \in Under(d)) /\ ~(d \in Under(c))
    BY <1>1 DEF Under
  <2>5. ~(x \in Under(c) /\ x \in Under(d))
    BY <2>1, <2>2, <2>3, <2>4
  <2> QED
    BY <2>5
<1> HIDE DEF T
<1>4. Nodes \subseteq T
  BY <1>2, <1>3, NodeInduction
<1> QED
  BY <1>4 DEF Under, T

\* The nodes of a subject: its top, and those of the children it follows.
Followed(n) == {c \in Kids(n) : c \notin scene.mesh /\ scene.ns[c] = scene.ns[n]}

\* The members of a skeleton at a node are the node and the members at the children it follows.
LEMMA MembersSplit ==
    ASSUME SceneShaped, NEW n \in Nodes, n \notin scene.mesh
    PROVE  Members(n) = {n} \cup UNION {Members(c) : c \in Followed(n)}
<1> DEFINE Good(m, t) == m \notin scene.mesh /\ scene.ns[m] = scene.ns[t]
<1>1. \A t \in Nodes : Members(t) =
        {x \in Under(t) : \A m \in ({x} \cup Above[x]) \ Above[t] : Good(m, t)}
  BY DEF Members, Under
<1>2. n \notin Above[n] /\ n \in Under(n)
  BY AboveIsSmaller, SceneAssumption DEF Under, Nodes
<1>3. n \in Members(n)
  BY <1>1, <1>2
<1>4. ASSUME NEW c \in Kids(n), NEW x \in Under(c)
      PROVE  x \in Members(n) <=> c \in Followed(n) /\ x \in Members(c)
  <2>1. c \in Nodes /\ Above[c] = {n} \cup Above[n]
    BY KidFacts
  <2>2. x \in Under(n)
    BY <1>4, UnderSplits
  <2>3. n \in Above[x] /\ c \in {x} \cup Above[x]
    BY <2>1, <2>2, <1>4, UnderSplits DEF Under
  <2>4. c \notin Above[c]
    BY <2>1, AboveIsSmaller, SceneAssumption DEF Nodes
  <2>5. ({x} \cup Above[x]) \ Above[n] = (({x} \cup Above[x]) \ Above[c]) \cup {n}
    BY <1>2, <2>1, <2>3
  <2>6. x \in Members(n) <=> \A m \in ({x} \cup Above[x]) \ Above[c] : Good(m, n)
    BY <1>1, <2>2, <2>5
  <2>7. x \in Members(c) <=> \A m \in ({x} \cup Above[x]) \ Above[c] : Good(m, c)
    BY <1>1, <1>4, <2>1
  <2>8. c \in Followed(n) <=> Good(c, n)
    BY DEF Followed
  <2>9. Good(c, n) => \A m : Good(m, n) <=> Good(m, c)
    OBVIOUS
  <2>10. c \in ({x} \cup Above[x]) \ Above[c]
    BY <2>3, <2>4
  <2> HIDE DEF Good
  <2> QED
    BY <2>6, <2>7, <2>8, <2>9, <2>10
<1>5. \A x \in Members(n) : x = n \/ \E c \in Kids(n) : x \in Under(c)
  BY <1>1, UnderSplits
<1>6. \A c \in Followed(n) : c \in Kids(n) /\ Members(c) \subseteq Under(c)
  BY <1>1, KidFacts DEF Followed
<1> QED
  BY <1>3, <1>4, <1>5, <1>6

-----------------------------------------------------------------------------
(* What ListChildren lists.                                                *)

\* The k-th item hangs from one before it, behind the first l, as its node does.
Hangs(r, k, l) ==
    r[k].parentId \in l .. k - 2 /\ r[r[k].parentId + 1].node = scene.parent[r[k].node]

\* r has the items, then one of each node of S: n's, with the parent id pid, and
\* others that hang from one of them.
Lists(r, items, n, pid, S) ==
    /\ r \in Seq(SceneItems) /\ Len(items) < Len(r)
    /\ \A i \in 1 .. Len(items) : r[i] = items[i]
    /\ r[Len(items) + 1].node = n /\ r[Len(items) + 1].parentId = pid
    /\ \A k \in Len(items) + 1 .. Len(r) : r[k].node \in S
    /\ \A x \in S : \E k \in Len(items) + 1 .. Len(r) : r[k].node = x
    /\ \A j \in Len(items) + 1 .. Len(r) : \A k \in Len(items) + 1 .. Len(r) :
         r[j].node = r[k].node => j = k
    /\ \A k \in Len(items) + 2 .. Len(r) : Hangs(r, k, Len(items))

\* A list to which a node's own item is appended lists that node.
LEMMA ListStarts ==
    ASSUME NEW n \in Nodes, NEW items \in Seq(SceneItems), NEW pid \in Int
    PROVE  Lists(Append(items, OwnItem(<<n, items, pid>>)), items, n, pid, {n})
<1> DEFINE own == OwnItem(<<n, items, pid>>)
           r == Append(items, own)
           l == Len(items)
<1>1. own \in SceneItems /\ own.node = n /\ own.parentId = pid
  BY DEF OwnItem, SceneItems
<1> HIDE DEF own
<1>2. /\ r \in Seq(SceneItems) /\ Len(r) = l + 1 /\ l \in Nat
      /\ r[l + 1] = own /\ \A i \in 1 .. l : r[i] = items[i]
  BY <1>1
<1> HIDE DEF r, l
<1>3. \A k \in l + 1 .. Len(r) : k = l + 1
  BY <1>2
<1>4. l + 1 \in l + 1 .. Len(r) /\ l < Len(r) /\ ~(\E k \in l + 2 .. Len(r) : TRUE)
  BY <1>2
<1>5. Lists(r, items, n, pid, {n})
  BY <1>1, <1>2, <1>3, <1>4 DEF Lists, l
<1> QED
  BY <1>5 DEF r, own

\* What a child's call adds hangs from the node.
LEMMA ListJoins ==
    ASSUME NEW r, NEW q, NEW items \in Seq(SceneItems), NEW n, NEW pid, NEW S, NEW c, NEW C,
           Lists(r, items, n, pid, S), Lists(q, r, c, Len(items), C),
           scene.parent[c] = n, S \cap C = {}
    PROVE  Lists(q, items, n, pid, S \cup C)
<1> DEFINE l == Len(items)
           m == Len(r)
           e == Len(q)
<1>1. /\ l \in Nat /\ m \in Nat /\ e \in Nat /\ l < m /\ m < e
      /\ r \in Seq(SceneItems) /\ q \in Seq(SceneItems)
  BY DEF Lists
<1>2. \A i \in 1 .. m : q[i] = r[i]
  BY DEF Lists
<1>3. /\ \A i \in 1 .. l : r[i] = items[i]
      /\ r[l + 1].node = n /\ r[l + 1].parentId = pid
  BY DEF Lists
<1>4. /\ \A k \in l + 1 .. m : r[k].node \in S
      /\ \A x \in S : \E k \in l + 1 .. m : r[k].node = x
  BY DEF Lists
<1>5. /\ \A k \in m + 1 .. e : q[k].node \in C
      /\ \A x \in C : \E k \in m + 1 .. e : q[k].node = x
  BY DEF Lists
<1>6. /\ \A j \in l + 1 .. m : \A k \in l + 1 .. m : r[j].node = r[k].node => j = k
      /\ \A j \in m + 1 .. e : \A k \in m + 1 .. e : q[j].node = q[k].node => j = k
  BY DEF Lists
<1>7. /\ \A k \in l + 2 .. m : Hangs(r, k, l)
      /\ \A k \in m + 2 .. e : Hangs(q, k, m)
      /\ q[m + 1].node = c /\ q[m + 1].parentId = l
  BY DEF Lists
<1> HIDE DEF l, m, e
<1>8. \A k \in l + 1 .. e : k \in l + 1 .. m \/ k \in m + 1 .. e
  BY <1>1
<1>9. \A k \in l + 1 .. m : k \in l + 1 .. e /\ k \in 1 .. m
  BY <1>1
<1>10. \A k \in m + 1 .. e : k \in l + 1 .. e
  BY <1>1
<1>11. /\ \A k \in l + 1 .. e : q[k].node \in S \cup C
       /\ \A x \in S \cup C : \E k \in l + 1 .. e : q[k].node = x
  <2>1. ASSUME NEW x \in S PROVE \E k \in l + 1 .. e : q[k].node = x
    BY <1>2, <1>4, <1>9
  <2>2. ASSUME NEW x \in C PROVE \E k \in l + 1 .. e : q[k].node = x
    BY <1>5, <1>10
  <2>3. ASSUME NEW k \in l + 1 .. e PROVE q[k].node \in S \cup C
    BY <1>2, <1>4, <1>5, <1>8, <1>9
  <2> QED
    BY <2>1, <2>2, <2>3
<1>12. ASSUME NEW j \in l + 1 .. e, NEW k \in l + 1 .. e, q[j].node = q[k].node PROVE j = k
  <2>1. \A i \in l + 1 .. m : q[i] = r[i] /\ q[i].node \in S
    BY <1>2, <1>4, <1>9
  <2>2. CASE j \in l + 1 .. m /\ k \in l + 1 .. m
    BY <1>6, <1>12, <2>1, <2>2
  <2>3. CASE j \in m + 1 .. e /\ k \in m + 1 .. e
    BY <1>6, <1>12, <2>3
  <2>4. CASE j \in l + 1 .. m /\ k \in m + 1 .. e
    BY <1>5, <1>12, <2>1, <2>4
  <2>5. CASE j \in m + 1 .. e /\ k \in l + 1 .. m
    BY <1>5, <1>12, <2>1, <2>5
  <2> QED
    BY <1>8, <2>2, <2>3, <2>4, <2>5
<1>13. ASSUME NEW k \in l + 2 .. e PROVE Hangs(q, k, l)
  <2>1. CASE k \in l + 2 .. m
    <3> DEFINE p == r[k].parentId
    <3>1. p \in l .. k - 2 /\ r[p + 1].node = scene.parent[r[k].node]
      BY <1>7, <2>1 DEF Hangs
    <3> HIDE DEF p
    <3>2. p + 1 \in 1 .. m /\ k \in 1 .. m
      BY <1>1, <2>1, <3>1
    <3>3. q[k] = r[k] /\ q[p + 1] = r[p + 1]
      BY <1>2, <3>2
    <3> QED
      BY <3>1, <3>3 DEF Hangs, p
  <2>2. CASE k = m + 1
    <3>1. q[k].node = c /\ q[k].parentId = l /\ l \in l .. k - 2 /\ l + 1 \in 1 .. m
      BY <1>1, <1>7, <2>2
    <3>2. q[l + 1].node = n
      BY <1>2, <1>3, <3>1
    <3> QED
      BY <3>1, <3>2 DEF Hangs
  <2>3. CASE k \in m + 2 .. e
    <3> DEFINE p == q[k].parentId
    <3>1. p \in m .. k - 2 /\ q[p + 1].node = scene.parent[q[k].node]
      BY <1>7, <2>3 DEF Hangs
    <3> HIDE DEF p
    <3>2. p \in l .. k - 2
      BY <1>1, <2>3, <3>1
    <3> QED
      BY <3>1, <3>2 DEF Hangs, p
  <2>4. k \in l + 2 .. m \/ k = m + 1 \/ k \in m + 2 .. e
    BY <1>1
  <2> QED
    BY <2>1, <2>2, <2>3, <2>4, Zenon
<1>14. /\ \A i \in 1 .. l : q[i] = items[i]
       /\ q[l + 1].node = n /\ q[l + 1].parentId = pid /\ l < e
  <2>1. l + 1 \in 1 .. m /\ (\A i \in 1 .. l : i \in 1 .. m) /\ l < e
    BY <1>1
  <2> QED
    BY <1>2, <1>3, <2>1
<1> QED
  BY <1>1, <1>11, <1>12, <1>13, <1>14 DEF Lists, l, e

\* The nodes that are listed when the loop has looked at the first k.
ListedAt(n, k) == {n} \cup UNION {Members(c) : c \in {d \in Followed(n) : d <= k}}

\* ListChildren lists a node's members after what was there, each once and behind its parent.
LEMMA ListRight ==
    ASSUME SceneShaped
    PROVE  \A n \in Nodes : n \notin scene.mesh =>
             \A items \in Seq(SceneItems) : \A pid \in Int :
               Lists(ListChildren[<<n, items, pid>>], items, n, pid, Members(n))
<1> DEFINE Right(n) ==
             \A items \in Seq(SceneItems) : \A pid \in Int :
               Lists(ListChildren[<<n, items, pid>>], items, n, pid, Members(n))
           T == {m \in Nat : \A n \in Nodes : n \notin scene.mesh /\ NumNodes - n < m => Right(n)}
<1>0. NumNodes \in Nat /\ \A n \in Nodes : n \in 0 .. NumNodes
  BY SceneAssumption DEF Nodes
<1>1. 0 \in T
  <2>1. \A n \in Nodes : ~(NumNodes - n < 0)
    BY <1>0
  <2> HIDE DEF Right
  <2> QED
    BY <2>1
<1>2. ASSUME NEW m \in Nat, m \in T PROVE m + 1 \in T
  <2>1. ASSUME NEW n \in Nodes, n \notin scene.mesh, NumNodes - n < m + 1,
               NEW items \in Seq(SceneItems), NEW pid \in Int
        PROVE  Lists(ListChildren[<<n, items, pid>>], items, n, pid, Members(n))
    <3> DEFINE call == <<n, items, pid>>
    <3>1. call \in ListCalls /\ call[1] = n /\ call[2] = items
      BY <2>1 DEF ListCalls
    <3>2. \A c \in Followed(n) : c \in Nodes /\ c \in 1 .. NumNodes /\ c \notin scene.mesh /\ n < c
      BY KidFacts DEF Followed
    <3>3. ASSUME NEW c \in Followed(n) PROVE Right(c)
      <4>1. NumNodes - c < m
        BY <1>0, <2>1, <3>2, <3>3
      <4> HIDE DEF Right
      <4> QED
        BY <1>2, <3>2, <3>3, <4>1
    <3> HIDE DEF call
    <3>4. PICK h : ListSteps(h, ListChildren, call)
      <4>1. ListAnswers(ListChildren, call)
        BY ListChildrenFacts DEF ListAnswers
      <4> QED
        BY <3>1, <4>1, ListLoop
    <3>5. h[0] = Append(items, OwnItem(<<n, items, pid>>)) /\ h[NumNodes] = ListChildren[<<n, items, pid>>]
      BY <3>1, <3>4, ListChildrenFacts DEF ListSteps, call
    <3>6. ASSUME NEW k \in 1 .. NumNodes
          PROVE  h[k] = IF k \in Followed(n) THEN ListChildren[<<k, h[k - 1], Len(items)>>] ELSE h[k - 1]
      <4>1. Follows(k, n) <=> k \in Followed(n)
        BY DEF Follows, Followed, Kids
      <4> QED
        BY <3>1, <3>4, <4>1 DEF ListSteps
    <3> DEFINE U == {k \in Nat : k <= NumNodes => Lists(h[k], items, n, pid, ListedAt(n, k))}
    <3>7. 0 \in U
      <4>1. ListedAt(n, 0) = {n}
        BY <1>0, <3>2 DEF ListedAt
      <4> QED
        BY <2>1, <3>5, <4>1, ListStarts
    <3>8. ASSUME NEW k \in Nat, k \in U PROVE k + 1 \in U
      <4>0. SUFFICES ASSUME k + 1 <= NumNodes PROVE Lists(h[k + 1], items, n, pid, ListedAt(n, k + 1))
        OBVIOUS
      <4>1. k + 1 \in 1 .. NumNodes /\ (k + 1) - 1 = k /\ k <= NumNodes
        BY <1>0, <4>0
      <4>2. Lists(h[k], items, n, pid, ListedAt(n, k))
        BY <3>8, <4>1
      <4>3. \A c \in Followed(n) : c <= k + 1 <=> c <= k \/ c = k + 1
        BY <3>2, <3>8
      <4>4. CASE k + 1 \notin Followed(n)
        <5>1. ListedAt(n, k + 1) = ListedAt(n, k)
          BY <4>3, <4>4 DEF ListedAt
        <5>2. h[k + 1] = h[k]
          BY <3>6, <4>1, <4>4
        <5> QED
          BY <4>2, <5>1, <5>2
      <4>5. CASE k + 1 \in Followed(n)
        <5>1. ListedAt(n, k + 1) = ListedAt(n, k) \cup Members(k + 1)
          BY <4>3, <4>5 DEF ListedAt
        <5>2. h[k + 1] = ListChildren[<<k + 1, h[k], Len(items)>>]
          BY <3>6, <4>1, <4>5
        <5>3. h[k] \in Seq(SceneItems) /\ Len(items) \in Int
          BY <4>2 DEF Lists
        <5>4. Lists(h[k + 1], h[k], k + 1, Len(items), Members(k + 1))
          BY <3>3, <4>5, <5>2, <5>3
        <5>5. ListedAt(n, k) \cap Members(k + 1) = {}
          <6>1. k + 1 \in Kids(n) /\ \A c \in Followed(n) : c \in Kids(n) /\ Members(c) \subseteq Under(c)
            BY <4>5 DEF Followed, Members, Under
          <6>2. n \notin Members(k + 1)
            BY <4>5, <6>1, UnderSplits
          <6>3. ASSUME NEW c \in Followed(n), c <= k PROVE Members(c) \cap Members(k + 1) = {}
            <7>1. c # k + 1
              BY <3>2, <3>8, <6>3
            <7> QED
              BY <4>5, <6>1, <7>1, UnderApart
          <6> QED
            BY <6>2, <6>3 DEF ListedAt
        <5>6. scene.parent[k + 1] = n
          BY <4>5 DEF Followed, Kids
        <5>7. Lists(h[k + 1], items, n, pid, ListedAt(n, k) \cup Members(k + 1))
          BY <4>2, <5>4, <5>5, <5>6, ListJoins
        <5> QED
          BY <5>1, <5>7
      <4> QED
        BY <4>4, <4>5
    <3> HIDE DEF U
    <3>9. Nat \subseteq U
      BY <3>7, <3>8, SetInduction
    <3>10. Lists(h[NumNodes], items, n, pid, ListedAt(n, NumNodes))
      BY <1>0, <3>9 DEF U
    <3>11. ListedAt(n, NumNodes) = Members(n)
      <4>1. \A c \in Followed(n) : c <= NumNodes
        BY <1>0, <3>2
      <4>2. {d \in Followed(n) : d <= NumNodes} = Followed(n)
        BY <4>1
      <4> QED
        BY <2>1, <4>2, MembersSplit DEF ListedAt
    <3> QED
      BY <3>5, <3>10, <3>11
  <2> QED
    BY <2>1
<1> HIDE DEF T
<1>3. Nat \subseteq T
  BY <1>1, <1>2, SetInduction
<1>4. ASSUME NEW n \in Nodes, n \notin scene.mesh PROVE Right(n)
  <2>1. NumNodes - n < NumNodes + 1 /\ NumNodes + 1 \in T
    BY <1>0, <1>3
  <2> HIDE DEF Right
  <2> QED
    BY <1>4, <2>1 DEF T
<1> QED
  BY <1>4

-----------------------------------------------------------------------------
(* What FindSubjects finds.                                                *)

TopOf(subject) == subject.mItems[1].node

\* r has the subjects, then one at each node of S.
Finds(r, subjects, S) ==
    /\ r \in Seq(SceneSubjects) /\ Len(subjects) <= Len(r)
    /\ \A i \in 1 .. Len(subjects) : r[i] = subjects[i]
    /\ \A k \in Len(subjects) + 1 .. Len(r) : TopOf(r[k]) \in S /\ r[k] = SubjectAt(TopOf(r[k]))
    /\ \A t \in S : \E k \in Len(subjects) + 1 .. Len(r) : TopOf(r[k]) = t
    /\ \A j \in Len(subjects) + 1 .. Len(r) : \A k \in Len(subjects) + 1 .. Len(r) :
         TopOf(r[j]) = TopOf(r[k]) => j = k

\* A list of subjects to which nothing is added has found nothing more.
LEMMA FindsNone ==
    ASSUME NEW subjects \in Seq(SceneSubjects)
    PROVE  Finds(subjects, subjects, {})
<1>1. Len(subjects) \in Nat /\ ~(\E k \in Len(subjects) + 1 .. Len(subjects) : TRUE)
  OBVIOUS
<1> QED
  BY <1>1 DEF Finds

\* A subject's first node is the one it hangs from.
LEMMA SubjectAtFacts ==
    ASSUME SceneShaped, NEW t \in Nodes, t \notin scene.mesh
    PROVE  /\ TopOf(SubjectAt(t)) = t
           /\ Lists(SubjectAt(t).mItems, <<>>, t, -1, Members(t))
<1> DEFINE r == ListChildren[<<t, <<>>, -1>>]
<1>1. Lists(r, <<>>, t, -1, Members(t))
  <2>1. <<>> \in Seq(SceneItems)
    OBVIOUS
  <2>2. -1 \in Int
    OBVIOUS
  <2> QED
    BY <2>1, <2>2, ListRight, Zenon
<1>2. SubjectAt(t).mItems = r
  BY DEF SubjectAt
<1> HIDE DEF r
<1>3. r[1].node = t
  <2>1. Len(<<>>) + 1 = 1
    OBVIOUS
  <2>2. r[Len(<<>>) + 1].node = t
    BY <1>1, Zenon DEF Lists
  <2> QED
    BY <2>1, <2>2, Zenon
<1> QED
  BY <1>1, <1>2, <1>3, Zenon DEF TopOf

\* The subject made at a top adds that top.
LEMMA FindsOne ==
    ASSUME SceneShaped, NEW subjects \in Seq(SceneSubjects), NEW t \in Nodes, t \notin scene.mesh,
           ~Nameless(t)
    PROVE  Finds(Append(subjects, SubjectAt(t)), subjects, {t})
<1> DEFINE s == SubjectAt(t)
           r == Append(subjects, s)
           l == Len(subjects)
<1>1. s \in SceneSubjects /\ TopOf(s) = t
  BY SubjectAtType, SubjectAtFacts
<1>2. s = SubjectAt(t)
  OBVIOUS
<1> HIDE DEF s
<1>3. /\ r \in Seq(SceneSubjects) /\ Len(r) = l + 1 /\ l \in Nat
      /\ r[l + 1] = s /\ \A i \in 1 .. l : r[i] = subjects[i]
  BY <1>1
<1> HIDE DEF r, l
<1>4. (\A k \in l + 1 .. Len(r) : k = l + 1) /\ l + 1 \in l + 1 .. Len(r) /\ l <= Len(r)
  BY <1>3
<1>5. Finds(r, subjects, {t})
  BY <1>1, <1>2, <1>3, <1>4 DEF Finds, l
<1> QED
  BY <1>5 DEF r, s

\* Finding one set of tops and then another, apart from it, finds both.
LEMMA FindJoins ==
    ASSUME NEW r, NEW q, NEW subjects \in Seq(SceneSubjects), NEW S, NEW C,
           Finds(r, subjects, S), Finds(q, r, C), S \cap C = {}
    PROVE  Finds(q, subjects, S \cup C)
<1> DEFINE l == Len(subjects)
           m == Len(r)
           e == Len(q)
<1>1. /\ l \in Nat /\ m \in Nat /\ e \in Nat /\ l <= m /\ m <= e
      /\ r \in Seq(SceneSubjects) /\ q \in Seq(SceneSubjects)
  BY DEF Finds
<1>2. (\A i \in 1 .. m : q[i] = r[i]) /\ (\A i \in 1 .. l : r[i] = subjects[i])
  BY DEF Finds
<1>3. /\ \A k \in l + 1 .. m : TopOf(r[k]) \in S /\ r[k] = SubjectAt(TopOf(r[k]))
      /\ \A t \in S : \E k \in l + 1 .. m : TopOf(r[k]) = t
  BY DEF Finds
<1>4. /\ \A k \in m + 1 .. e : TopOf(q[k]) \in C /\ q[k] = SubjectAt(TopOf(q[k]))
      /\ \A t \in C : \E k \in m + 1 .. e : TopOf(q[k]) = t
  BY DEF Finds
<1>5. /\ \A j \in l + 1 .. m : \A k \in l + 1 .. m : TopOf(r[j]) = TopOf(r[k]) => j = k
      /\ \A j \in m + 1 .. e : \A k \in m + 1 .. e : TopOf(q[j]) = TopOf(q[k]) => j = k
  BY DEF Finds
<1> HIDE DEF l, m, e
<1>6. \A k \in l + 1 .. e : k \in l + 1 .. m \/ k \in m + 1 .. e
  BY <1>1
<1>7. \A k \in l + 1 .. m : k \in l + 1 .. e /\ k \in 1 .. m
  BY <1>1
<1>8. \A k \in m + 1 .. e : k \in l + 1 .. e
  BY <1>1
<1>9. \A k \in l + 1 .. m : q[k] = r[k]
  BY <1>2, <1>7
<1>10. ASSUME NEW k \in l + 1 .. e PROVE TopOf(q[k]) \in S \cup C /\ q[k] = SubjectAt(TopOf(q[k]))
  BY <1>3, <1>4, <1>6, <1>9
<1>11. ASSUME NEW t \in S \cup C PROVE \E k \in l + 1 .. e : TopOf(q[k]) = t
  <2>1. CASE t \in S
    BY <1>3, <1>7, <1>9, <2>1
  <2>2. CASE t \in C
    BY <1>4, <1>8, <2>2
  <2> QED
    BY <2>1, <2>2
<1>12. ASSUME NEW j \in l + 1 .. e, NEW k \in l + 1 .. e, TopOf(q[j]) = TopOf(q[k]) PROVE j = k
  <2>1. \A i \in l + 1 .. m : q[i] = r[i] /\ TopOf(q[i]) \in S
    BY <1>3, <1>9
  <2>2. CASE j \in l + 1 .. m /\ k \in l + 1 .. m
    BY <1>5, <1>12, <2>1, <2>2
  <2>3. CASE j \in m + 1 .. e /\ k \in m + 1 .. e
    BY <1>5, <1>12, <2>3
  <2>4. CASE j \in l + 1 .. m /\ k \in m + 1 .. e
    BY <1>4, <1>12, <2>1, <2>4
  <2>5. CASE j \in m + 1 .. e /\ k \in l + 1 .. m
    BY <1>4, <1>12, <2>1, <2>5
  <2> QED
    BY <1>6, <2>2, <2>3, <2>4, <2>5
<1>13. l <= e /\ \A i \in 1 .. l : q[i] = subjects[i]
  <2>1. l <= e /\ \A i \in 1 .. l : i \in 1 .. m
    BY <1>1
  <2> QED
    BY <1>2, <2>1
<1> QED
  BY <1>1, <1>10, <1>11, <1>12, <1>13 DEF Finds, l, e

\* The tops at a node and below.
TopsAt(n) == Tops \cap Under(n)

\* A top is a node with a name, no mesh, above which no node has a name.
LEMMA TopFacts ==
    /\ Tops \subseteq Nodes
    /\ \A t \in Nodes : t \in Tops <=> t \notin scene.mesh /\ ~Nameless(t) /\ \A m \in Above[t] : Nameless(m)
BY DEF Tops, Nameless

\* The tops that are found when the loop has looked at the first k nodes.
FoundAt(n, k) == UNION {TopsAt(c) : c \in {d \in Kids(n) : d <= k}}

\* FindSubjects adds a subject for each top at a node below nameless ones, and no other.
LEMMA FindRight ==
    ASSUME SceneShaped
    PROVE  \A n \in Nodes : (\A m \in Above[n] : Nameless(m)) =>
             \A subjects \in Seq(SceneSubjects) :
               Finds(FindSubjects[<<n, subjects>>], subjects, TopsAt(n))
<1> DEFINE Right(n) ==
             \A subjects \in Seq(SceneSubjects) :
               Finds(FindSubjects[<<n, subjects>>], subjects, TopsAt(n))
           Free(n) == \A m \in Above[n] : Nameless(m)
           T == {m \in Nat : \A n \in Nodes : Free(n) /\ NumNodes - n < m => Right(n)}
<1>0. NumNodes \in Nat /\ \A n \in Nodes : n \in 0 .. NumNodes
  BY SceneAssumption DEF Nodes
<1>1. 0 \in T
  <2>1. \A n \in Nodes : ~(NumNodes - n < 0)
    BY <1>0
  <2> HIDE DEF Right, Free
  <2> QED
    BY <2>1
<1>2. ASSUME NEW m \in Nat, m \in T PROVE m + 1 \in T
  <2>1. ASSUME NEW n \in Nodes, Free(n), NumNodes - n < m + 1, NEW subjects \in Seq(SceneSubjects)
        PROVE  Finds(FindSubjects[<<n, subjects>>], subjects, TopsAt(n))
    <3> DEFINE call == <<n, subjects>>
    <3>1. call \in FindCalls /\ call[1] = n /\ call[2] = subjects
      BY <2>1 DEF FindCalls
    <3> HIDE DEF call
    <3>2. FindSubjects[call] = FindAt(FindSubjects, call)
      BY <3>1, FindSubjectsFacts
    <3>3. CASE ~Nameless(n) /\ n \in scene.mesh
      <4>1. FindSubjects[call] = subjects
        BY <3>1, <3>2, <3>3 DEF FindAt
      <4>2. TopsAt(n) = {}
        BY <3>3, TopFacts DEF TopsAt, Under
      <4> QED
        BY <2>1, <4>1, <4>2, FindsNone DEF call
    <3>4. CASE ~Nameless(n) /\ n \notin scene.mesh
      <4>1. FindSubjects[call] = Append(subjects, SubjectAt(n))
        BY <3>1, <3>2, <3>4 DEF FindAt
      <4>2. TopsAt(n) = {n}
        BY <2>1, <3>4, TopFacts DEF TopsAt, Under
      <4>3. Finds(Append(subjects, SubjectAt(n)), subjects, {n})
        BY <2>1, <3>4, FindsOne
      <4> QED
        BY <4>1, <4>2, <4>3 DEF call
    <3>5. CASE Nameless(n)
      <4>1. \A c \in Kids(n) : c \in Nodes /\ c \in 1 .. NumNodes /\ n < c /\ Free(c)
        BY <2>1, <3>5, KidFacts
      <4>2. ASSUME NEW c \in Kids(n) PROVE Right(c)
        <5>1. NumNodes - c < m /\ c \in Nodes /\ Free(c)
          BY <1>0, <2>1, <4>1, <4>2
        <5> HIDE DEF Right, Free
        <5> QED
          BY <1>2, <5>1
      <4>3. PICK h : FindSteps(h, FindSubjects, call)
        <5>1. FindAnswers(FindSubjects, call)
          BY FindSubjectsFacts DEF FindAnswers
        <5> QED
          BY <3>1, <5>1, FindLoop
      <4>4. h[0] = subjects /\ h[NumNodes] = FindSubjects[<<n, subjects>>]
        BY <3>1, <3>2, <3>5, <4>3 DEF FindSteps, FindAt, call
      <4>5. ASSUME NEW k \in 1 .. NumNodes
            PROVE  h[k] = IF k \in Kids(n) THEN FindSubjects[<<k, h[k - 1]>>] ELSE h[k - 1]
        <5>1. scene.parent[k] = n <=> k \in Kids(n)
          BY DEF Kids
        <5> QED
          BY <3>1, <4>3, <5>1 DEF FindSteps
      <4> DEFINE U == {k \in Nat : k <= NumNodes => Finds(h[k], subjects, FoundAt(n, k))}
      <4>6. 0 \in U
        <5>1. FoundAt(n, 0) = {}
          BY <1>0, <4>1 DEF FoundAt
        <5> QED
          BY <2>1, <4>4, <5>1, FindsNone
      <4>7. ASSUME NEW k \in Nat, k \in U PROVE k + 1 \in U
        <5>0. SUFFICES ASSUME k + 1 <= NumNodes PROVE Finds(h[k + 1], subjects, FoundAt(n, k + 1))
          OBVIOUS
        <5>1. k + 1 \in 1 .. NumNodes /\ (k + 1) - 1 = k /\ k <= NumNodes
          BY <1>0, <5>0
        <5>2. Finds(h[k], subjects, FoundAt(n, k))
          BY <4>7, <5>1
        <5>3. \A c \in Kids(n) : c <= k + 1 <=> c <= k \/ c = k + 1
          BY <4>1, <4>7
        <5>4. CASE k + 1 \notin Kids(n)
          <6>1. FoundAt(n, k + 1) = FoundAt(n, k)
            BY <5>3, <5>4 DEF FoundAt
          <6>2. h[k + 1] = h[k]
            BY <4>5, <5>1, <5>4
          <6> QED
            BY <5>2, <6>1, <6>2
        <5>5. CASE k + 1 \in Kids(n)
          <6>1. FoundAt(n, k + 1) = FoundAt(n, k) \cup TopsAt(k + 1)
            BY <5>3, <5>5 DEF FoundAt
          <6>2. h[k + 1] = FindSubjects[<<k + 1, h[k]>>]
            BY <4>5, <5>1, <5>5
          <6>3. h[k] \in Seq(SceneSubjects)
            BY <5>2 DEF Finds
          <6>4. Finds(h[k + 1], h[k], TopsAt(k + 1))
            BY <4>2, <5>5, <6>2, <6>3
          <6>5. FoundAt(n, k) \cap TopsAt(k + 1) = {}
            <7>1. ASSUME NEW c \in Kids(n), c <= k PROVE TopsAt(c) \cap TopsAt(k + 1) = {}
              <8>1. c # k + 1
                BY <4>1, <4>7, <7>1
              <8> QED
                BY <5>5, <8>1, UnderApart DEF TopsAt
            <7> QED
              BY <7>1 DEF FoundAt
          <6>6. Finds(h[k + 1], subjects, FoundAt(n, k) \cup TopsAt(k + 1))
            BY <5>2, <6>4, <6>5, FindJoins
          <6> QED
            BY <6>1, <6>6
        <5> QED
          BY <5>4, <5>5
      <4> HIDE DEF U
      <4>8. Nat \subseteq U
        BY <4>6, <4>7, SetInduction
      <4>9. Finds(h[NumNodes], subjects, FoundAt(n, NumNodes))
        BY <1>0, <4>8 DEF U
      <4>10. FoundAt(n, NumNodes) = TopsAt(n)
        <5>1. \A c \in Kids(n) : c <= NumNodes
          BY <1>0, <4>1
        <5>2. {d \in Kids(n) : d <= NumNodes} = Kids(n)
          BY <5>1
        <5>3. n \notin Tops
          BY <3>5, TopFacts
        <5> QED
          BY <5>2, <5>3, UnderSplits DEF FoundAt, TopsAt
      <4> QED
        BY <4>4, <4>9, <4>10
    <3> QED
      BY <3>3, <3>4, <3>5
  <2> HIDE DEF Free
  <2> QED
    BY <2>1
<1> HIDE DEF T
<1>3. Nat \subseteq T
  BY <1>1, <1>2, SetInduction
<1>4. ASSUME NEW n \in Nodes, Free(n) PROVE Right(n)
  <2>1. NumNodes - n < NumNodes + 1 /\ NumNodes + 1 \in T
    BY <1>0, <1>3
  <2> HIDE DEF Right, Free
  <2> QED
    BY <1>4, <2>1 DEF T
<1> QED
  BY <1>4

\* From the root, all of them.
LEMMA FindsAll ==
    ASSUME SceneShaped
    PROVE  Finds(FindSubjects[<<0, <<>>>>], <<>>, Tops)
<1>1. 0 \in Nodes /\ Above[0] = {}
  BY SceneAssumption, AboveFacts DEF Nodes
<1>2. TopsAt(0) = Tops
  BY <1>1, RootIsAbove, TopFacts DEF TopsAt, Under
<1>3. <<>> \in Seq(SceneSubjects)
  OBVIOUS
<1>4. Finds(FindSubjects[<<0, <<>>>>], <<>>, TopsAt(0))
  BY <1>1, <1>3, FindRight, Zenon
<1> QED
  BY <1>2, <1>4

-----------------------------------------------------------------------------
(* The subjects of a scene.                                                *)

\* Places with different values that are all of a set's are as many as it has.
LEMMA CountsPlaces ==
    ASSUME NEW n \in Nat, NEW f, NEW S,
           \A k \in 1 .. n : f[k] \in S,
           \A x \in S : \E k \in 1 .. n : f[k] = x,
           \A j \in 1 .. n : \A k \in 1 .. n : f[j] = f[k] => j = k
    PROVE  Cardinality(S) = n
<1> DEFINE g == [k \in 1 .. n |-> f[k]]
<1>1. g \in [1 .. n -> S] /\ \A k \in 1 .. n : g[k] = f[k]
  OBVIOUS
<1> HIDE DEF g
<1>2. DOMAIN g = 1 .. n
  BY <1>1
<1>3. g \in Bijection(1 .. n, S)
  BY <1>1, <1>2 DEF Bijection, Injection, Surjection, IsInjective
<1>4. ExistsBijection(1 .. n, S)
  BY <1>3 DEF ExistsBijection
<1> QED
  BY <1>4, FS_CountingElements

\* What a subject's items are.
ItemsRight(items) ==
    /\ items \in Seq([node : Nodes, parentId : -1 .. NumNodes])
    /\ {item.node : item \in Range(items)} = Members(items[1].node)
    /\ Len(items) = Cardinality(Members(items[1].node))
    /\ \A k \in 2 .. Len(items) :
         /\ items[k].parentId \in 0 .. k - 2
         /\ items[items[k].parentId + 1].node = scene.parent[items[k].node]

\* A list that lists a top's members from nothing is a right subject's list.
LEMMA ListsAreRight ==
    ASSUME NEW items, NEW t \in Nodes, Lists(items, <<>>, t, -1, Members(t))
    PROVE  ItemsRight(items) /\ items[1].node = t
<1> DEFINE n == Len(items)
           z == Len(<<>>)
<1>0. NumNodes \in Nat /\ Members(t) \subseteq Nodes
  BY SceneAssumption DEF Members
<1>1. z = 0
  OBVIOUS
<1>2. items \in Seq(SceneItems) /\ z < n /\ items[z + 1].node = t /\ items[z + 1].parentId = -1
  BY DEF Lists
<1>3. /\ \A k \in z + 1 .. n : items[k].node \in Members(t)
      /\ \A x \in Members(t) : \E k \in z + 1 .. n : items[k].node = x
      /\ \A j \in z + 1 .. n : \A k \in z + 1 .. n : items[j].node = items[k].node => j = k
  BY Zenon DEF Lists
<1>4. \A k \in z + 2 .. n : Hangs(items, k, z)
  BY Zenon DEF Lists
<1>5. n \in Nat /\ DOMAIN items = 1 .. n /\ \A k \in 1 .. n : items[k] \in SceneItems
  BY <1>2
<1> HIDE DEF z
<1>6. items[1].node = t /\ items[1].parentId = -1 /\ 0 < n
  BY <1>1, <1>2
<1>7. /\ \A k \in 1 .. n : items[k].node \in Members(t)
      /\ \A x \in Members(t) : \E k \in 1 .. n : items[k].node = x
      /\ \A j \in 1 .. n : \A k \in 1 .. n : items[j].node = items[k].node => j = k
  BY <1>1, <1>3
<1>8. \A k \in 2 .. n : /\ items[k].parentId \in 0 .. k - 2
                        /\ items[items[k].parentId + 1].node = scene.parent[items[k].node]
  BY <1>1, <1>4 DEF Hangs
<1> HIDE DEF n
<1>9. Cardinality(Members(t)) = n
  <2> DEFINE f == [k \in 1 .. n |-> items[k].node]
  <2>1. \A k \in 1 .. n : f[k] = items[k].node
    OBVIOUS
  <2> HIDE DEF f
  <2>2. /\ \A k \in 1 .. n : f[k] \in Members(t)
        /\ \A x \in Members(t) : \E k \in 1 .. n : f[k] = x
        /\ \A j \in 1 .. n : \A k \in 1 .. n : f[j] = f[k] => j = k
    BY <1>7, <2>1
  <2> QED
    BY <1>5, <2>2, CountsPlaces
<1>10. n <= NumNodes + 1
  <2>1. IsFiniteSet(Nodes) /\ Cardinality(Nodes) = NumNodes + 1
    <3>1. IsFiniteSet(0 .. NumNodes) /\ Cardinality(0 .. NumNodes) = NumNodes - 0 + 1
      BY <1>0, FS_Interval
    <3> QED
      BY <1>0, <3>1 DEF Nodes
  <2>2. Cardinality(Members(t)) <= Cardinality(Nodes)
    BY <1>0, <2>1, FS_Subset
  <2> QED
    BY <1>9, <2>1, <2>2
<1>11. {item.node : item \in Range(items)} = Members(t)
  BY <1>5, <1>7 DEF Range
<1>12. items \in Seq([node : Nodes, parentId : -1 .. NumNodes])
  <2>1. ASSUME NEW k \in 1 .. n PROVE items[k] \in [node : Nodes, parentId : -1 .. NumNodes]
    <3>1. items[k].parentId \in -1 .. NumNodes
      <4>1. CASE k = 1
        BY <1>0, <1>6, <4>1
      <4>2. CASE k # 1
        <5> DEFINE p == items[k].parentId
        <5>1. k \in 2 .. n /\ p \in 0 .. k - 2
          BY <1>5, <1>8, <2>1, <4>2
        <5> HIDE DEF p
        <5>2. p \in -1 .. NumNodes
          BY <1>0, <1>5, <1>10, <5>1
        <5> QED
          BY <5>2 DEF p
      <4> QED
        BY <4>1, <4>2
    <3> QED
      BY <1>5, <3>1 DEF SceneItems
  <2>2. items \in [1 .. n -> [node : Nodes, parentId : -1 .. NumNodes]]
    BY <1>2, <1>5, <2>1
  <2> DEFINE I == [node : Nodes, parentId : -1 .. NumNodes]
  <2> HIDE DEF I
  <2>3. items \in Seq(I)
    BY <1>5, <2>2, SeqDef DEF I
  <2> QED
    BY <2>3 DEF I
<1> QED
  BY <1>6, <1>8, <1>9, <1>11, <1>12 DEF ItemsRight, n

\* What the subjects are.
SubjectsRight(subjects) ==
    /\ {TopOf(s) : s \in Range(subjects)} = Tops /\ Len(subjects) = Cardinality(Tops)
    /\ \A s \in Range(subjects) : s.mName \in Namespaces /\ ItemsRight(s.mItems)

\* Subjects that find the tops from nothing are the right subjects.
LEMMA FindsAreRight ==
    ASSUME SceneShaped, NEW subjects, Finds(subjects, <<>>, Tops)
    PROVE  SubjectsRight(subjects)
<1> DEFINE n == Len(subjects)
           z == Len(<<>>)
<1>1. z = 0
  OBVIOUS
<1>2. subjects \in Seq(SceneSubjects)
  BY DEF Finds
<1>3. /\ \A k \in z + 1 .. n : TopOf(subjects[k]) \in Tops /\ subjects[k] = SubjectAt(TopOf(subjects[k]))
      /\ \A t \in Tops : \E k \in z + 1 .. n : TopOf(subjects[k]) = t
      /\ \A j \in z + 1 .. n : \A k \in z + 1 .. n : TopOf(subjects[j]) = TopOf(subjects[k]) => j = k
  BY Zenon DEF Finds
<1>4. n \in Nat /\ DOMAIN subjects = 1 .. n
  BY <1>2
<1> HIDE DEF z
<1>5. /\ \A k \in 1 .. n : TopOf(subjects[k]) \in Tops /\ subjects[k] = SubjectAt(TopOf(subjects[k]))
      /\ \A t \in Tops : \E k \in 1 .. n : TopOf(subjects[k]) = t
      /\ \A j \in 1 .. n : \A k \in 1 .. n : TopOf(subjects[j]) = TopOf(subjects[k]) => j = k
  BY <1>1, <1>3
<1> HIDE DEF n
<1>6. Cardinality(Tops) = n
  <2> DEFINE f == [k \in 1 .. n |-> TopOf(subjects[k])]
  <2>1. \A k \in 1 .. n : f[k] = TopOf(subjects[k])
    OBVIOUS
  <2> HIDE DEF f
  <2>2. /\ \A k \in 1 .. n : f[k] \in Tops
        /\ \A x \in Tops : \E k \in 1 .. n : f[k] = x
        /\ \A j \in 1 .. n : \A k \in 1 .. n : f[j] = f[k] => j = k
    BY <1>5, <2>1
  <2> QED
    BY <1>4, <2>2, CountsPlaces
<1>7. {TopOf(s) : s \in Range(subjects)} = Tops
  BY <1>4, <1>5 DEF Range
<1>8. ASSUME NEW s \in Range(subjects) PROVE s.mName \in Namespaces /\ ItemsRight(s.mItems)
  <2>1. PICK t \in Tops : s = SubjectAt(t)
    BY <1>4, <1>5, <1>8 DEF Range
  <2>2. t \in Nodes /\ t \notin scene.mesh /\ ~Nameless(t)
    BY <2>1, TopFacts
  <2>3. Lists(s.mItems, <<>>, t, -1, Members(t))
    BY <2>1, <2>2, SubjectAtFacts
  <2>4. ItemsRight(s.mItems)
    BY <2>2, <2>3, ListsAreRight
  <2>5. s \in SceneSubjects
    BY <2>1, <2>2, SubjectAtType
  <2> QED
    BY <2>4, <2>5 DEF SceneSubjects
<1> QED
  BY <1>6, <1>7, <1>8 DEF SubjectsRight, n

\* The scene is a tree, and what was found in it is right.
SceneInv ==
    /\ SceneShaped /\ loaded \in {"no", "yes", "failed"}
    /\ found \in Seq(SceneSubjects) /\ (loaded # "yes" => found = <<>>)
    /\ loaded = "yes" => SubjectsRight(found)

\* A step that leaves the scene as it is leaves its shape, tops and members.
LEMMA SameScene ==
    ASSUME scene' = scene
    PROVE  /\ SceneShaped' <=> SceneShaped
           /\ Tops' = Tops
           /\ \A n : (Members(n))' = Members(n)
<1>1. Above' = Above
  BY DEF Above, Nodes
<1> QED
  BY <1>1 DEF SceneShaped, Nameless, Tops, Members, Nodes

\* So a right set of subjects remains right.
LEMMA SameSubjects ==
    ASSUME scene' = scene, SubjectsRight(found')
    PROVE  SubjectsRight(found)'
<1>1. \A s \in Range(found') : ItemsRight(s.mItems) => (ItemsRight(s.mItems))'
  BY SameScene DEF ItemsRight, Nodes
<1> QED
  BY <1>1, SameScene DEF SubjectsRight, TopOf

\* What the invariant says in the words of the model.
LEMMA SceneInvImplies == SceneInv => SceneTypeOK /\ ItemsAreNodes
<1> SUFFICES ASSUME SceneInv PROVE SceneTypeOK /\ ItemsAreNodes
  OBVIOUS
<1>1. \A i \in DOMAIN found : found[i] \in Range(found)
  BY DEF Range
<1>2. CASE loaded = "yes"
  <2>1. SubjectsRight(found)
    BY <1>2 DEF SceneInv
  <2>2. SceneTypeOK
    BY <1>1, <2>1 DEF SceneInv, SceneTypeOK, SubjectsRight, ItemsRight
  <2>3. ItemsAreNodes
    BY <2>1 DEF ItemsAreNodes, SubjectsRight, ItemsRight, TopOf
  <2> QED
    BY <2>2, <2>3
<1>3. CASE loaded # "yes"
  <2>1. found = <<>>
    BY <1>3 DEF SceneInv
  <2>2. DOMAIN found = {}
    BY <2>1
  <2> QED
    BY <1>3, <2>2 DEF SceneInv, SceneTypeOK, ItemsAreNodes
<1> QED
  BY <1>2, <1>3

\* Any scene is a tree.
LEMMA SceneInitInv == SceneInit => SceneInv
<1> SUFFICES ASSUME SceneInit PROVE SceneInv
  OBVIOUS
<1>1. SceneShaped
  <2>1. /\ scene.parent \in {p \in [1 .. NumNodes -> Nodes] : \A n \in DOMAIN p : p[n] < n}
        /\ scene.ns \in {s \in [Nodes -> Namespaces \cup {""}] : s[0] = ""}
    BY Zenon DEF SceneInit
  <2>2. scene.parent \in [1 .. NumNodes -> Nodes] /\ \A n \in 1 .. NumNodes : scene.parent[n] < n
    BY <2>1
  <2>3. Nameless(0) /\ \A n \in Nodes : ~Nameless(n) => scene.ns[n] \in Namespaces
    BY <2>1 DEF Nameless
  <2> QED
    BY <2>2, <2>3 DEF SceneShaped
<1>2. loaded = "no" /\ found = <<>>
  BY DEF SceneInit
<1>3. found \in Seq(SceneSubjects)
  BY <1>2
<1> QED
  BY <1>1, <1>2, <1>3 DEF SceneInv

\* Loading a file keeps SceneInv.
LEMMA SceneNextInv == SceneInv /\ [SceneNext]_sceneVars => SceneInv'
<1> SUFFICES ASSUME SceneInv, [SceneNext]_sceneVars PROVE SceneInv'
  OBVIOUS
<1>1. scene' = scene
  BY DEF SceneNext, Load, sceneVars
<1>2. SceneShaped /\ SceneShaped'
  BY <1>1, SameScene DEF SceneInv
<1>3. CASE UNCHANGED sceneVars
  <2>1. loaded' = loaded /\ found' = found
    BY <1>3 DEF sceneVars
  <2>2. loaded = "yes" => SubjectsRight(found')
    BY <2>1 DEF SceneInv
  <2> QED
    BY <1>1, <1>2, <2>1, <2>2, SameSubjects DEF SceneInv, SceneSubjects, SceneItems, Nodes
<1>4. CASE Load /\ loaded' = "failed"
  <2>1. found' = <<>>
    BY <1>4 DEF Load, SceneInv
  <2>2. found' \in Seq(SceneSubjects)
    BY <2>1
  <2> QED
    BY <1>2, <1>4, <2>1, <2>2 DEF SceneInv, SceneSubjects, SceneItems, Nodes
<1>5. CASE Load /\ loaded' # "failed"
  <2>1. loaded' = "yes" /\ found' = FindSubjects[<<0, <<>>>>]
    BY <1>5 DEF Load
  <2>2. Finds(found', <<>>, Tops)
    BY <1>2, <2>1, FindsAll
  <2>3. SubjectsRight(found') /\ found' \in Seq(SceneSubjects)
    BY <1>2, <2>2, FindsAreRight DEF Finds
  <2> QED
    BY <1>1, <1>2, <2>1, <2>3, SameSubjects DEF SceneInv, SceneSubjects, SceneItems, Nodes
<1> QED
  BY <1>3, <1>4, <1>5 DEF SceneNext

\* fbxloader.cpp FindSubjects and ListChildren, for any number of nodes and
\* namespaces: the subjects are the trees of the scene, each node of which is
\* listed once, behind the one it hangs from.
THEOREM ScenesAreTrees == SceneSpec => []ItemsAreNodes
<1>1. SceneSpec => []SceneInv
  BY SceneInitInv, SceneNextInv, PTL DEF SceneSpec
<1> QED
  BY <1>1, SceneInvImplies, PTL

\* What is found are subjects of the scene's namespaces, and lists of its nodes.
THEOREM SceneTyped == SceneSpec => []SceneTypeOK
<1>1. SceneSpec => []SceneInv
  BY SceneInitInv, SceneNextInv, PTL DEF SceneSpec
<1> QED
  BY <1>1, SceneInvImplies, PTL

-----------------------------------------------------------------------------
(* The parts together, as TLC checks them in one run.                      *)

allVars ==
    <<part, tcpVars, sockVars, listVars, devVars, mayaVars, ctxVars, sceneVars, xsensVars>>

\* A player that has not loaded a file has an initial scene.
LEMMA NoSceneInit == scene = NoScene /\ loaded = "no" /\ found = <<>> => SceneInit
<1> SUFFICES ASSUME scene = NoScene, loaded = "no", found = <<>> PROVE SceneInit
  OBVIOUS
<1> DEFINE P == {p \in [1 .. NumNodes -> Nodes] : \A n \in DOMAIN p : p[n] < n}
           S == {s \in [Nodes -> Namespaces \cup {""}] : s[0] = ""}
           M == {m \in SUBSET (1 .. NumNodes) : Cardinality(m) <= MaxMeshes}
<1>1. [n \in 1 .. NumNodes |-> 0] \in P
  <2>1. 0 \in Nodes /\ \A n \in 1 .. NumNodes : 0 < n
    BY SceneAssumption DEF Nodes
  <2> QED
    BY <2>1
<1>2. [n \in Nodes |-> ""] \in S
  <2>1. 0 \in Nodes
    BY SceneAssumption DEF Nodes
  <2> QED
    BY <2>1, Zenon
<1>3. {} \in M
  <2>1. Cardinality({}) = 0 /\ {} \in SUBSET (1 .. NumNodes)
    BY FS_EmptySet
  <2> QED
    BY <2>1, SceneAssumption
<1> HIDE DEF P, S, M
<1>4. NoScene \in [parent : P, ns : S, mesh : M]
  BY <1>1, <1>2, <1>3, Zenon DEF NoScene
<1> QED
  BY <1>4, Zenon DEF SceneInit, P, S, M

\* A step of the composition is a step, or a stutter, of every part.
LEMMA PartsStep == [PluginsNext]_allVars =>
    /\ [TcpNext]_tcpVars /\ [SockNext]_sockVars /\ [ListsNext]_listVars /\ [DevNext]_devVars
    /\ [MayaNext]_mayaVars /\ [CtxNext]_ctxVars /\ [SceneNext]_sceneVars /\ [XsensNext]_xsensVars
BY DEF PluginsNext, allVars

\* The parts do not disturb one another: what each does in the composition is what
\* it does alone.
THEOREM PartsApart == PluginsSpec =>
    TcpSpec /\ SockSpec /\ ListsSpec /\ DevSpec /\ MayaSpec /\ CtxSpec /\ SceneSpec /\ XsensSpec
<1>1. PluginsInit =>
         /\ TcpInit /\ SockInit /\ ListsInit /\ DevInit /\ MayaInit /\ CtxInit
         /\ SceneInit /\ XsensInit
  BY NoSceneInit DEF PluginsInit
<1> QED
  BY <1>1, PartsStep, PTL
     DEF PluginsSpec, allVars, TcpSpec, SockSpec, ListsSpec, DevSpec, MayaSpec, CtxSpec, SceneSpec, XsensSpec

\* Whatever part runs, every variable is of its type, and what the TCP reader has
\* read fits its buffer.
THEOREM PluginsTyped == PluginsSpec => []PluginsTypeOK
<1>1. /\ TcpTypeOK /\ BufferFits /\ SockTypeOK /\ ListsTypeOK /\ DevTypeOK /\ MayaTypeOK
      /\ CtxTypeOK /\ SceneTypeOK /\ XsensTypeOK
      => PluginsTypeOK
  BY DEF PluginsTypeOK
<1> QED
  BY <1>1, PartsApart, TcpTyped, TcpBufferFits, SockTyped, ListsTyped, DevTyped, MayaTyped,
     CtxTyped, SceneTyped, XsensTyped, PTL
=============================================================================
