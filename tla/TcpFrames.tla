------------------------------ MODULE TcpFrames ------------------------------
(***************************************************************************)
(* Frames over TCP: the MotionBuilder device writes a header, the length   *)
(* and the packet, each with a send of its own; the Unreal server reads    *)
(* the stream in ticks, looks for the header, and from then on takes what  *)
(* follows a frame for the header of the next.                             *)
(*                                                                         *)
(* The header begins with a byte 0 and has no other.  The length is four   *)
(* bytes, the lowest first, most of which are 0.  Connections are made one *)
(* after another.                                                          *)
(***************************************************************************)
EXTENDS Naturals, Sequences, SequencesExt

CONSTANTS
    Header,      \* the 14 bytes before each length
    Packets,     \* the packets to send
    MaxBucket,   \* the longest packet the reader takes
    MinBuffer,   \* what it allocates at first
    MaxWrites,   \* bounds: frames of a connection,
    MaxDials     \* and connections

Prefix == Len(Header) + 4

ASSUME TcpAssumption ==
    /\ Header \in Seq(Nat) /\ Len(Header) > 1 /\ Header[1] = 0
    /\ \A i \in 2 .. Len(Header) : Header[i] # 0
    /\ Packets \subseteq Seq(Nat) \ {<<>>}
    /\ \A p \in Packets : ((Len(p) \div 256) \div 256) \div 256 < 256
    /\ MaxBucket \in Nat /\ MinBuffer \in Nat /\ MaxWrites \in Nat /\ MaxDials \in Nat

VARIABLES
    dials,      \* how many connections were made
    open,       \* is the sender's socket open?
    sent,       \* the packets of which something was sent
    writes,
    stream,     \* bytes sent and not read
    torn,       \* was only some of a frame sent, and the next after it?
    mState,     \* "SYNC", "HEADER" or "DATA"
    mBuffer,    \* the bytes up to mPtr
    bufferSize,
    slipped,    \* has the reader thrown bytes away?
    delivered   \* the packets given to OnData

sender   == <<dials, open, sent, writes, torn>>
receiver == <<mState, mBuffer, bufferSize, slipped, delivered>>
tcpVars  == <<sender, receiver, stream>>

TcpInit ==
    /\ dials = 0 /\ open = FALSE /\ sent = <<>> /\ writes = 0 /\ stream = <<>>
    /\ torn = FALSE /\ mState = "SYNC" /\ mBuffer = <<>> /\ bufferSize = 0
    /\ slipped = FALSE /\ delivered = <<>>

\* The plugin is started: it connects, and keeps the buffer it has allocated.
Dial ==
    /\ dials < MaxDials /\ dials' = dials + 1 /\ open' = TRUE
    /\ sent' = <<>> /\ writes' = 0 /\ stream' = <<>> /\ torn' = FALSE
    /\ mState' = "SYNC" /\ mBuffer' = <<>> /\ slipped' = FALSE
    /\ delivered' = <<>> /\ UNCHANGED bufferSize

\* The four bytes of a length, and the length that is behind a header.
LengthBytes(n) ==
    LET q == n \div 256   r == q \div 256   t == r \div 256
    IN  <<n % 256, q % 256, r % 256, t % 256>>

LengthIn(bytes) ==
    LET byte(i) == bytes[Len(Header) + i]
    IN  byte(1) + 256 * (byte(2) + 256 * (byte(3) + 256 * byte(4)))

\* MUTANT: the length is one too short.
PiecesShort(p) == <<Header, LengthBytes(Len(p) - 1), p>>

Pieces(p) == <<Header, LengthBytes(Len(p)), p>>

\* The bytes of the pieces, those of skip left out.
Joined(pieces, skip) ==
    LET Piece(i) == IF i \in skip THEN <<>> ELSE pieces[i]
    IN  Piece(1) \o Piece(2) \o Piece(3)

\* TcpSocket::Send of a piece that would block returns as if it had sent.
WouldBlock == SUBSET (1 .. 3)

\* Open3D_Device::WriteTcp, no send of which throws.
WriteTcp(p) ==
    /\ open /\ writes < MaxWrites /\ writes' = writes + 1
    /\ \E skip \in WouldBlock :
          /\ stream' = stream \o Joined(Pieces(p), skip)
          /\ sent' = IF skip = 1 .. 3 THEN sent ELSE Append(sent, p)
          /\ torn' = (torn \/ skip \notin {{}, 1 .. 3})
    /\ UNCHANGED <<dials, open, receiver>>

\* A send that is cut short throws: the socket is closed, the client forgotten.
WriteBreaks(p) ==
    /\ open /\ writes < MaxWrites /\ writes' = writes + 1
    /\ \E n \in 1 .. Prefix + Len(p) - 1 :
          stream' = stream \o SubSeq(Joined(Pieces(p), {}), 1, n)
    /\ open' = FALSE /\ sent' = Append(sent, p)
    /\ UNCHANGED <<dials, torn, receiver>>

\* MUTANT: the buffer stays as it was allocated.
ReadTcpTight(len, n) ==
    /\ len > Len(mBuffer)
    /\ n <= len - Len(mBuffer) /\ n <= Len(stream)
    /\ bufferSize' = IF bufferSize = 0 THEN MinBuffer ELSE bufferSize
    /\ stream' = SubSeq(stream, n + 1, Len(stream))

\* O3DSServer::ReadTcp: makes room, and takes up to len - mPtr bytes, or none:
\* then the tick is over.  Room is made for len bytes beyond mPtr.
ReadTcp(len, n) ==
    /\ len > Len(mBuffer)
    /\ n <= len - Len(mBuffer) /\ n <= Len(stream)
    /\ bufferSize' =
          IF bufferSize = 0 THEN (IF len < MinBuffer THEN MinBuffer ELSE len)
          ELSE IF len + Len(mBuffer) > bufferSize THEN len + Len(mBuffer)
          ELSE bufferSize
    /\ stream' = SubSeq(stream, n + 1, Len(stream))

\* What was read, thrown away.
Slip == mBuffer' = <<>> /\ slipped' = TRUE

\* Looking for the header, one byte at a time.  A tick that finds no byte, and a
\* byte that differs, begin again.
Sync ==
    /\ mState = "SYNC" /\ dials > 0 /\ UNCHANGED <<sender, delivered>>
    /\ \/ /\ ReadTcp(Len(mBuffer) + 1, 1)
          /\ LET read == Append(mBuffer, Head(stream))
             IN  IF ~IsPrefix(read, Header) THEN Slip /\ UNCHANGED mState
                 ELSE /\ mBuffer' = read /\ UNCHANGED slipped
                      /\ mState' = IF read = Header THEN "HEADER" ELSE "SYNC"
       \/ /\ mBuffer # <<>> /\ ReadTcp(Len(mBuffer) + 1, 0)
          /\ Slip /\ UNCHANGED mState

\* strncmp ends at the first byte, which is 0 in both.
HeaderAccepted(bytes) == bytes[1] = Header[1]

ReadHeader ==
    /\ mState = "HEADER" /\ UNCHANGED <<sender, delivered>>
    /\ \E n \in 0 .. Len(stream) :
          /\ ReadTcp(Prefix, n)
          /\ LET read == mBuffer \o SubSeq(stream, 1, n)
             IN  IF Len(read) = Prefix /\ ~HeaderAccepted(read)
                 THEN Slip /\ mState' = "SYNC"
                 ELSE /\ mBuffer' = read /\ UNCHANGED slipped
                      /\ mState' = IF Len(read) = Prefix THEN "DATA" ELSE "HEADER"

BucketSize == LengthIn(mBuffer)

RefuseData ==
    /\ mState = "DATA" /\ BucketSize > MaxBucket
    /\ Slip /\ mState' = "SYNC"
    /\ UNCHANGED <<sender, stream, bufferSize, delivered>>

ReadData ==
    /\ mState = "DATA" /\ BucketSize <= MaxBucket
    /\ \E n \in 0 .. Len(stream) :
          /\ ReadTcp(BucketSize + Prefix, n)
          /\ mBuffer' = mBuffer \o SubSeq(stream, 1, n)
    /\ UNCHANGED <<sender, mState, slipped, delivered>>

\* MUTANT: the length's last byte is delivered, too.
DeliverLength ==
    /\ mState = "DATA" /\ Len(mBuffer) = BucketSize + Prefix
    /\ delivered' = Append(delivered, SubSeq(mBuffer, Prefix, Len(mBuffer)))
    /\ mState' = "HEADER" /\ mBuffer' = <<>>
    /\ UNCHANGED <<sender, stream, bufferSize, slipped>>

Deliver ==
    /\ mState = "DATA" /\ Len(mBuffer) = BucketSize + Prefix
    /\ delivered' = Append(delivered, SubSeq(mBuffer, Prefix + 1, Len(mBuffer)))
    /\ mState' = "HEADER" /\ mBuffer' = <<>>
    /\ UNCHANGED <<sender, stream, bufferSize, slipped>>

TcpNext ==
    \/ Dial \/ \E p \in Packets : WriteTcp(p) \/ WriteBreaks(p)
    \/ Sync \/ ReadHeader \/ RefuseData \/ ReadData \/ Deliver

TcpSpec == TcpInit /\ [][TcpNext]_tcpVars

-----------------------------------------------------------------------------
TcpTypeOK ==
    /\ dials \in 0 .. MaxDials /\ writes \in 0 .. MaxWrites
    /\ open \in BOOLEAN /\ torn \in BOOLEAN /\ slipped \in BOOLEAN
    /\ mState \in {"SYNC", "HEADER", "DATA"}
    /\ sent \in Seq(Packets) /\ stream \in Seq(Nat) /\ mBuffer \in Seq(Nat)
    /\ mState = "DATA" => Len(mBuffer) >= Prefix

\* As long as whole frames are written and the reader has thrown nothing away,
\* it is in step: whatever the packets look like, a header in a packet included,
\* and however the stream is cut up, what it delivers is what was sent.
InStep ==
    ~torn /\ ~slipped =>
        /\ IsPrefix(delivered, sent)
        /\ open /\ stream = <<>> /\ mBuffer = <<>> /\ dials > 0 => delivered = sent

\* Does the header occur in the length and the packet?
HeaderIn(p) ==
    LET body == LengthBytes(Len(p)) \o p
    IN  \E i \in 0 .. Len(body) - Len(Header) :
            \A j \in 1 .. Len(Header) : body[i + j] = Header[j]

\* If the header occurs in no frame but at its start, whatever else the frames
\* hold, bytes 0 and parts of the header included: then frames may be lost, at
\* the start or behind one that is refused as too long, but those that are
\* delivered are whole and in order.
WholeFrames ==
    ~torn /\ (\A i \in DOMAIN sent : ~HeaderIn(sent[i])) =>
        \E place \in [DOMAIN delivered -> DOMAIN sent] :
            \A k \in DOMAIN delivered :
                delivered[k] = sent[place[k]] /\ (k > 1 => place[k - 1] < place[k])

\* What is read fits the buffer, and the buffer is bounded, whatever lengths
\* the stream seems to name.
BufferFits ==
    /\ Len(mBuffer) <= bufferSize
    /\ bufferSize <= MinBuffer \/ bufferSize <= 2 * (MaxBucket + Prefix)

=============================================================================
