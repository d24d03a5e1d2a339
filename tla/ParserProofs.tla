---------------------------- MODULE ParserProofs -----------------------------
(***************************************************************************)
(* Proofs about what reads a stream: the frames of the Unreal server, for  *)
(* any header that begins with its only 0 and any packets, and the XSens   *)
(* parser, for any table, names and segments.                              *)
(***************************************************************************)
EXTENDS TcpFrames, XsensParser, Induction, TLAPS, SequenceTheorems, FiniteSetTheorems

-----------------------------------------------------------------------------
(* The reader of the TCP frames.                                           *)

\* The byte at b of the frame of p.
FrameByte(p, b) ==
    IF b <= Len(Header) THEN Header[b]
    ELSE IF b <= Prefix THEN LengthBytes(Len(p))[b - Len(Header)]
    ELSE p[b - Prefix]

\* frames are one behind another, the i-th from e[i] on; the first d of them are
\* used up, and bytes are the others, the last ones cut short unless whole.
Framed(e, frames, d, bytes, whole) ==
    /\ \A i \in 1 .. Len(frames) : e[i + 1] = e[i] + Prefix + Len(frames[i])
    /\ \A i, j \in 1 .. Len(frames) + 1 : i <= j => e[i] <= e[j]
    /\ e[d + 1] + Len(bytes) <= e[Len(frames) + 1]
    /\ whole => e[d + 1] + Len(bytes) = e[Len(frames) + 1]
    /\ \A i \in d + 1 .. Len(frames) : \A b \in 1 .. Prefix + Len(frames[i]) :
          e[i] - e[d + 1] + b <= Len(bytes) =>
              bytes[e[i] - e[d + 1] + b] = FrameByte(frames[i], b)

Places(n) == [1 .. n + 1 -> Nat]

\* As Framed, where f adds a place to those of e.
FramedBehind(f, e, frames, d, bytes, whole) ==
    Framed(f, frames, d, bytes, whole) /\ \A i \in 1 .. Len(frames) : f[i] = e[i]

\* The reader's types, and how much of what it looks for is in the buffer.
ReadInv ==
    /\ mBuffer \in Seq(Nat) /\ stream \in Seq(Nat) /\ sent \in Seq(Packets)
    /\ delivered \in Seq(Seq(Nat)) /\ bufferSize \in Nat
    /\ open \in BOOLEAN
    /\ mState \in {"SYNC", "HEADER", "DATA"}
    /\ mState = "SYNC" => Len(mBuffer) < Len(Header)
    /\ mState = "HEADER" => Len(mBuffer) < Prefix
    /\ mState = "DATA" => Len(mBuffer) >= Prefix
    /\ BufferFits

\* A reader that is in step: what it delivered is what was sent, and what is unused
\* are the frames behind it.
StepInv ==
    ~torn /\ ~slipped =>
        /\ Len(delivered) <= Len(sent)
        /\ \A i \in 1 .. Len(delivered) : delivered[i] = sent[i]
        /\ \E e \in Places(Len(sent)) : Framed(e, sent, Len(delivered), mBuffer \o stream, open)

\* A frame's prefix is its header and the size, and a packet has at least one byte.
LEMMA PrefixFacts ==
    /\ Header \in Seq(Nat) /\ Len(Header) \in Nat /\ Prefix \in Nat /\ Len(Header) > 1
    /\ Prefix = Len(Header) + 4
    /\ \A p \in Packets : p \in Seq(Nat) /\ Len(p) \in Nat /\ Len(p) > 0
<1>1. Header \in Seq(Nat) /\ Len(Header) > 1 /\ Packets \subseteq Seq(Nat) \ {<<>>}
  BY TcpAssumption
<1>2. Len(Header) \in Nat
  BY <1>1
<1>3. ASSUME NEW p \in Packets PROVE p \in Seq(Nat) /\ Len(p) \in Nat /\ Len(p) > 0
  <2>1. p \in Seq(Nat) /\ p # <<>>
    BY <1>1, <1>3
  <2> QED
    BY <2>1, EmptySeq
<1> QED
  BY <1>1, <1>2, <1>3 DEF Prefix

\* A length's bytes are four, and the length can be had of them.
LEMMA LengthFacts ==
    ASSUME NEW n \in Nat
    PROVE  /\ LengthBytes(n) \in Seq(Nat) /\ Len(LengthBytes(n)) = 4
           /\ \A i \in 1 .. 4 : LengthBytes(n)[i] \in 0 .. 255
           /\ ((n \div 256) \div 256) \div 256 < 256 =>
                 LengthBytes(n)[1] + 256 * (LengthBytes(n)[2] + 256 * (LengthBytes(n)[3]
                    + 256 * LengthBytes(n)[4])) = n
<1> DEFINE q == n \div 256
           r == q \div 256
           t == r \div 256
           a == n % 256
           b == q % 256
           c == r % 256
           d == t % 256
<1>1. /\ q \in Nat /\ a \in 0 .. 255 /\ n = a + 256 * q
      /\ r \in Nat /\ b \in 0 .. 255 /\ q = b + 256 * r
      /\ t \in Nat /\ c \in 0 .. 255 /\ r = c + 256 * t
      /\ d \in 0 .. 255 /\ (t < 256 => d = t)
  <2>1. ASSUME NEW m \in Nat
        PROVE  /\ m \div 256 \in Nat /\ m % 256 \in 0 .. 255 /\ m = (m % 256) + 256 * (m \div 256)
               /\ m < 256 => m % 256 = m
    OBVIOUS
  <2> HIDE DEF q, r, t, a, b, c, d
  <2>2. q \in Nat /\ a \in 0 .. 255 /\ n = a + 256 * q
    BY <2>1 DEF q, a
  <2>3. r \in Nat /\ b \in 0 .. 255 /\ q = b + 256 * r
    BY <2>1, <2>2 DEF r, b
  <2>4. t \in Nat /\ c \in 0 .. 255 /\ r = c + 256 * t
    BY <2>1, <2>3 DEF t, c
  <2>5. d \in 0 .. 255 /\ (t < 256 => d = t)
    BY <2>1, <2>4 DEF d
  <2> QED
    BY <2>2, <2>3, <2>4, <2>5
<1>2. t < 256 => a + 256 * (b + 256 * (c + 256 * d)) = n
  <2> HIDE DEF q, r, t, a, b, c, d
  <2> QED
    BY <1>1
<1>3. LengthBytes(n) = <<a, b, c, d>>
  BY DEF LengthBytes
<1>4. ((n \div 256) \div 256) \div 256 = t
  OBVIOUS
<1> DEFINE v == LengthBytes(n)
<1> HIDE DEF q, r, t, a, b, c, d, v
<1>5. v = <<a, b, c, d>>
  BY <1>3 DEF v
<1>6. a \in Nat /\ b \in Nat /\ c \in Nat /\ d \in Nat
  BY <1>1
<1>7. v \in Seq(Nat) /\ Len(v) = 4 /\ v[1] = a /\ v[2] = b /\ v[3] = c /\ v[4] = d
  BY <1>5, <1>6
<1>8. \A i \in 1 .. 4 : v[i] \in 0 .. 255
  <2>1. \A i \in 1 .. 4 : i = 1 \/ i = 2 \/ i = 3 \/ i = 4
    OBVIOUS
  <2> QED
    BY <2>1, <1>1, <1>7
<1>9. ((n \div 256) \div 256) \div 256 < 256 =>
          v[1] + 256 * (v[2] + 256 * (v[3] + 256 * v[4])) = n
  BY <1>2, <1>4, <1>7
<1> QED
  BY <1>7, <1>8, <1>9 DEF v

\* Two sequences of bytes, one behind the other.
LEMMA Joining ==
    \A s, t \in Seq(Nat) :
        /\ s \o t \in Seq(Nat) /\ Len(s \o t) = Len(s) + Len(t)
        /\ \A i \in 1 .. Len(s) + Len(t) :
              (s \o t)[i] = IF i <= Len(s) THEN s[i] ELSE t[i - Len(s)]
BY ConcatProperties

\* Joining three runs of bytes does not depend on where one begins.
LEMMA JoiningThree == \A s, t, u \in Seq(Nat) : (s \o t) \o u = s \o (t \o u)
BY ConcatAssociative, SMTT(30)

\* What is behind the first k bytes is bytes.
LEMMA Behind == \A s \in Seq(Nat), k \in Nat : \A i \in k + 1 .. Len(s) : s[i] \in Nat
<1> SUFFICES ASSUME NEW s \in Seq(Nat), NEW k \in Nat, NEW i \in k + 1 .. Len(s)
             PROVE  s[i] \in Nat
  OBVIOUS
<1>1. Len(s) \in Nat
  BY LenProperties
<1>2. i \in 1 .. Len(s)
  BY <1>1
<1> QED
  BY <1>2, ElementOfSeq

\* What is moved from the front of t to the end of s is not lost.
LEMMA Moved ==
    ASSUME NEW s \in Seq(Nat), NEW t \in Seq(Nat), NEW n \in 0 .. Len(t)
    PROVE  /\ SubSeq(t, 1, n) \in Seq(Nat) /\ SubSeq(t, n + 1, Len(t)) \in Seq(Nat)
           /\ s \o SubSeq(t, 1, n) \in Seq(Nat)
           /\ Len(s \o SubSeq(t, 1, n)) = Len(s) + n
           /\ (s \o SubSeq(t, 1, n)) \o SubSeq(t, n + 1, Len(t)) = s \o t
<1>0. Len(t) \in Nat /\ n \in Int /\ Len(s) \in Nat
  OBVIOUS
<1>1. \A i \in 1 .. n : t[i] \in Nat
  BY <1>0
<1>2. \A i \in n + 1 .. Len(t) : t[i] \in Nat
  BY <1>0
<1>3. SubSeq(t, 1, n) \in Seq(Nat) /\ Len(SubSeq(t, 1, n)) = IF 1 <= n THEN n - 1 + 1 ELSE 0
  BY <1>0, <1>1, SubSeqProperties
<1>4. SubSeq(t, n + 1, Len(t)) \in Seq(Nat)
  <2>1. n + 1 \in Int /\ Len(t) \in Int
    BY <1>0
  <2> HIDE <1>0
  <2> QED
    BY <2>1, <1>2, SubSeqProperties
<1>5. SubSeq(t, 1, n) \o SubSeq(t, n + 1, Len(t)) = SubSeq(t, 1, Len(t))
  <2>1. 1 \in 1 .. Len(t) + 1 /\ n \in 1 - 1 .. Len(t) /\ Len(t) \in n .. Len(t)
    BY <1>0
  <2> QED
    BY <2>1, ConcatAdjacentSubSeq
<1>6. SubSeq(t, 1, Len(t)) = t
  BY SubSeqFull
<1>7. (s \o SubSeq(t, 1, n)) \o SubSeq(t, n + 1, Len(t)) = s \o t
  <2>1. SubSeq(t, 1, n) \in Seq(Nat)
    BY <1>3
  <2>2. (s \o SubSeq(t, 1, n)) \o SubSeq(t, n + 1, Len(t))
            = s \o (SubSeq(t, 1, n) \o SubSeq(t, n + 1, Len(t)))
    BY <2>1, <1>4, JoiningThree, Zenon
  <2> QED
    BY <2>2, <1>5, <1>6, Zenon
<1>8. s \o SubSeq(t, 1, n) \in Seq(Nat) /\ Len(s \o SubSeq(t, 1, n)) = Len(s) + Len(SubSeq(t, 1, n))
  BY <1>3, Joining
<1>9. Len(SubSeq(t, 1, n)) = n
  BY <1>3, <1>0
<1> QED
  BY <1>3, <1>4, <1>7, <1>8, <1>9

\* What a whole frame holds.
LEMMA FrameBytes ==
    ASSUME NEW p \in Packets
    PROVE  /\ Joined(Pieces(p), {}) \in Seq(Nat)
           /\ Len(Joined(Pieces(p), {})) = Prefix + Len(p)
           /\ \A b \in 1 .. Prefix + Len(p) : Joined(Pieces(p), {})[b] = FrameByte(p, b)
<1> DEFINE l == LengthBytes(Len(p))
           h == Header \o l
<1>1. /\ Header \in Seq(Nat) /\ p \in Seq(Nat) /\ Len(p) \in Nat /\ Len(Header) \in Nat
      /\ Prefix = Len(Header) + 4
  BY PrefixFacts
<1>2. l \in Seq(Nat) /\ Len(l) = 4
  BY <1>1, LengthFacts
<1>3. Joined(Pieces(p), {}) = h \o p
  BY DEF Joined, Pieces
<1> HIDE DEF l
<1>4. /\ h \in Seq(Nat) /\ Len(h) = Len(Header) + Len(l)
      /\ \A i \in 1 .. Len(Header) + Len(l) :
            h[i] = IF i <= Len(Header) THEN Header[i] ELSE l[i - Len(Header)]
  BY <1>1, <1>2, Joining, Zenon
<1> HIDE DEF h
<1>5. /\ h \in Seq(Nat) /\ Len(h) = Prefix
      /\ \A b \in 1 .. Prefix :
            h[b] = IF b <= Len(Header) THEN Header[b] ELSE l[b - Len(Header)]
  BY <1>1, <1>2, <1>4
<1>6. /\ h \o p \in Seq(Nat) /\ Len(h \o p) = Len(h) + Len(p)
      /\ \A i \in 1 .. Len(h) + Len(p) : (h \o p)[i] =
            IF i <= Len(h) THEN h[i] ELSE p[i - Len(h)]
  BY <1>1, <1>5, Joining, Zenon
<1>7. ASSUME NEW b \in 1 .. Prefix + Len(p) PROVE (h \o p)[b] = FrameByte(p, b)
  BY <1>1, <1>5, <1>6, <1>7 DEF FrameByte, l
<1> QED
  BY <1>3, <1>5, <1>6, <1>7

\* Sending one packet more puts it behind the packets already sent.
LEMMA SentOne ==
    ASSUME NEW frames \in Seq(Packets), NEW p \in Packets
    PROVE  /\ Append(frames, p) \in Seq(Packets)
           /\ Len(Append(frames, p)) = Len(frames) + 1
           /\ \A i \in 1 .. Len(frames) : Append(frames, p)[i] = frames[i]
           /\ Append(frames, p)[Len(frames) + 1] = p
OBVIOUS

\* bytes start the frame of p.
StartsFrame(bytes, p) ==
    /\ bytes \in Seq(Nat) /\ Len(bytes) <= Prefix + Len(p)
    /\ \A b \in 1 .. Len(bytes) : bytes[b] = FrameByte(p, b)

\* What is sent of a frame that is cut short.
LEMMA FrameCut ==
    ASSUME NEW p \in Packets, NEW n \in 1 .. Prefix + Len(p) - 1
    PROVE  StartsFrame(SubSeq(Joined(Pieces(p), {}), 1, n), p)
<1> DEFINE X == Joined(Pieces(p), {})
<1>1. /\ X \in Seq(Nat) /\ Len(X) = Prefix + Len(p) /\ Len(p) \in Nat /\ Prefix \in Nat
      /\ \A b \in 1 .. Prefix + Len(p) : X[b] = FrameByte(p, b)
  BY FrameBytes, PrefixFacts
<1> HIDE DEF X
<1>2. /\ n \in Nat /\ n >= 1 /\ n <= Len(X) /\ n \in 0 .. Len(X)
  BY <1>1
<1> DEFINE Y == SubSeq(X, 1, n)
<1>3. /\ Y \in Seq(Nat) /\ Len(Y) = n /\ \A b \in 1 .. n : Y[b] = X[b]
  <2>1. \A i \in 1 .. n : X[i] \in Nat
    BY <1>1, <1>2
  <2>2. 1 \in Int /\ n \in Int
    BY <1>2
  <2>3. /\ SubSeq(X, 1, n) \in Seq(Nat)
        /\ Len(SubSeq(X, 1, n)) = IF 1 <= n THEN n - 1 + 1 ELSE 0
        /\ \A i \in 1 .. n - 1 + 1 : SubSeq(X, 1, n)[i] = X[1 + i - 1]
    BY <2>1, <2>2, SubSeqProperties
  <2> HIDE DEF Y
  <2>4. /\ Y \in Seq(Nat) /\ Len(Y) = IF 1 <= n THEN n - 1 + 1 ELSE 0
        /\ \A i \in 1 .. n - 1 + 1 : Y[i] = X[1 + i - 1]
    BY <2>3 DEF Y
  <2>5. \A i \in 1 .. n : 1 + i - 1 = i
    BY <1>2
  <2>6. n - 1 + 1 = n /\ 1 <= n
    BY <1>2
  <2> QED
    BY <2>4, <2>5, <2>6
<1> HIDE DEF Y
<1>4. Len(Y) <= Prefix + Len(p) /\ \A b \in 1 .. Len(Y) : Y[b] = FrameByte(p, b)
  <2>1. Len(Y) <= Prefix + Len(p)
    BY <1>1, <1>2, <1>3
  <2>2. ASSUME NEW b \in 1 .. Len(Y) PROVE Y[b] = FrameByte(p, b)
    <3> DEFINE l == Len(p)
    <3>1. l \in Nat /\ n <= Prefix + l /\ b \in 1 .. n
      BY <1>1, <1>2, <1>3, <2>2
    <3> HIDE DEF l
    <3>2. b \in 1 .. Prefix + l
      BY <3>1, <1>1, <1>2
    <3> QED
      BY <3>1, <3>2, <1>1, <1>3 DEF l
  <2> QED
    BY <2>1, <2>2
<1>5. StartsFrame(Y, p)
  BY <1>3, <1>4 DEF StartsFrame
<1> QED
  BY <1>5, Zenon DEF Y, X

\* Nothing sent yet.
LEMMA FramedAtFirst ==
    ASSUME NEW whole
    PROVE  \E e \in Places(Len(<<>>)) : Framed(e, <<>>, Len(<<>>), <<>> \o <<>>, whole)
<1>1. Len(<<>>) = 0 /\ <<>> \o <<>> = <<>>
  BY EmptySeq, ConcatEmptySeq
<1> DEFINE none == <<>>
<1> HIDE DEF none
<1>2. Len(none) = 0 /\ none \o none = none
  BY <1>1 DEF none
<1> DEFINE e == [i \in 1 .. 1 |-> 0]
<1>3. e \in Places(0) /\ e[1] = 0
  BY DEF Places
<1> HIDE DEF e
<1>4. Framed(e, none, 0, none, whole)
  BY <1>2, <1>3 DEF Framed
<1> QED
  BY <1>2, <1>3, <1>4 DEF none

\* A frame is sent behind the others, whole or cut short.
LEMMA FramedOneMore ==
    ASSUME NEW frames \in Seq(Packets), NEW d \in 0 .. Len(frames), NEW bytes \in Seq(Nat),
           NEW e \in Places(Len(frames)), Framed(e, frames, d, bytes, TRUE),
           NEW p \in Packets, NEW X \in Seq(Nat), Len(X) <= Prefix + Len(p),
           \A b \in 1 .. Len(X) : X[b] = FrameByte(p, b),
           NEW whole \in BOOLEAN, whole => Len(X) = Prefix + Len(p)
    PROVE  \E f \in Places(Len(frames) + 1) :
               FramedBehind(f, e, Append(frames, p), d, bytes \o X, whole)
<1> DEFINE n == Len(frames)
           A == Append(frames, p)
           Y == bytes \o X
           end == e[n + 1] + Prefix + Len(p)
           f == [i \in 1 .. n + 2 |-> IF i <= n + 1 THEN e[i] ELSE end]
<1>1. /\ n \in Nat /\ Len(bytes) \in Nat /\ Len(X) \in Nat /\ d \in 0 .. n
      /\ Prefix \in Nat /\ Len(p) \in Nat /\ \A i \in 1 .. n : Len(frames[i]) \in Nat
  <2>1. ASSUME NEW i \in 1 .. n PROVE frames[i] \in Packets
    BY <2>1
  <2>2. \A i \in 1 .. n : Len(frames[i]) \in Nat
    BY <2>1, PrefixFacts, Zenon
  <2>3. Prefix \in Nat /\ Len(p) \in Nat
    BY PrefixFacts, Zenon
  <2> QED
    BY <2>2, <2>3
<1>2. /\ Len(A) = n + 1 /\ A[n + 1] = p
      /\ \A i \in 1 .. n : A[i] = frames[i]
  BY SentOne
<1>3. /\ Len(Y) = Len(bytes) + Len(X)
      /\ \A i \in 1 .. Len(bytes) + Len(X) :
            Y[i] = IF i <= Len(bytes) THEN bytes[i] ELSE X[i - Len(bytes)]
  BY Joining, Zenon
<1>4. /\ \A i \in 1 .. n + 1 : e[i] \in Nat
      /\ \A i \in 1 .. n : e[i + 1] = e[i] + Prefix + Len(frames[i])
      /\ \A i, j \in 1 .. n + 1 : i <= j => e[i] <= e[j]
      /\ e[d + 1] + Len(bytes) = e[n + 1]
      /\ \A i \in d + 1 .. n : \A b \in 1 .. Prefix + Len(frames[i]) :
            e[i] - e[d + 1] + b <= Len(bytes) =>
                bytes[e[i] - e[d + 1] + b] = FrameByte(frames[i], b)
  <2>1. e \in [1 .. n + 1 -> Nat]
    BY DEF Places
  <2> QED
    BY <2>1 DEF Framed
<1> HIDE DEF n, A, Y
<1>5. /\ f \in [1 .. n + 2 -> Nat] /\ f[n + 2] = end /\ end \in Nat
      /\ \A i \in 1 .. n + 1 : f[i] = e[i]
  <2>1. n + 1 \in 1 .. n + 1 /\ n + 1 \in 1 .. n + 2
    BY <1>1
  <2>2. e[n + 1] \in Nat
    BY <2>1, <1>4
  <2>3. end \in Nat
    <3>1. Prefix \in Nat /\ Len(p) \in Nat
      BY <1>1
    <3> QED
      BY <2>2, <3>1
  <2> HIDE DEF end
  <2>4. n \in Nat /\ \A i \in 1 .. n + 1 : e[i] \in Nat
    BY <1>1, <1>4
  <2>5. n + 2 \in 1 .. n + 2 /\ ~(n + 2 <= n + 1) /\ \A i \in 1 .. n + 1 : i <= n + 1 /\ i \in 1 .. n + 2
    BY <2>4
  <2>6. \A i \in 1 .. n + 2 : i <= n + 1 => i \in 1 .. n + 1
    BY <2>4
  <2> QED
    BY <2>3, <2>4, <2>5, <2>6
<1> HIDE DEF f
<1>6. \A i \in 1 .. n + 1 : f[i + 1] = f[i] + Prefix + Len(A[i])
  <2>1. ASSUME NEW i \in 1 .. n PROVE f[i + 1] = f[i] + Prefix + Len(A[i])
    <3>1. i \in 1 .. n + 1 /\ i + 1 \in 1 .. n + 1
      BY <1>1, <2>1
    <3>2. f[i + 1] = e[i + 1] /\ f[i] = e[i] /\ A[i] = frames[i]
      BY <3>1, <2>1, <1>2, <1>5
    <3> QED
      BY <3>2, <2>1, <1>4
  <2>2. f[(n + 1) + 1] = f[n + 1] + Prefix + Len(A[n + 1])
    <3>1. (n + 1) + 1 = n + 2 /\ n + 1 \in 1 .. n + 1
      BY <1>1
    <3> QED
      BY <3>1, <1>2, <1>5
  <2>3. \A i \in 1 .. n + 1 : i \in 1 .. n \/ i = n + 1
    BY <1>1
  <2> QED
    BY <2>1, <2>2, <2>3
<1>7. \A i, j \in 1 .. (n + 1) + 1 : i <= j => f[i] <= f[j]
  <2> SUFFICES ASSUME NEW i \in 1 .. (n + 1) + 1, NEW j \in 1 .. (n + 1) + 1, i <= j
               PROVE  f[i] <= f[j]
    OBVIOUS
  <2>1. CASE j <= n + 1
    <3>1. i \in 1 .. n + 1 /\ j \in 1 .. n + 1
      BY <2>1, <1>1
    <3>2. f[i] = e[i] /\ f[j] = e[j] /\ e[i] <= e[j]
      BY <3>1, <1>4, <1>5
    <3> QED
      BY <3>2
  <2>2. CASE j = n + 2 /\ i <= n + 1
    <3>1. i \in 1 .. n + 1 /\ n + 1 \in 1 .. n + 1 /\ i <= n + 1
      BY <2>2, <1>1
    <3>2. e[i] <= e[n + 1] /\ e[i] \in Nat /\ e[n + 1] \in Nat
      BY <3>1, <1>4
    <3>3. e[i] <= end
      BY <3>2, <1>1
    <3> QED
      BY <3>1, <3>3, <2>2, <1>5
  <2>3. CASE i = n + 2 /\ j = n + 2
    BY <2>3, <1>1, <1>5
  <2> QED
    BY <2>1, <2>2, <2>3, <1>1
<1>8. /\ f[d + 1] = e[d + 1] /\ e[d + 1] \in Nat /\ d + 1 \in 1 .. n + 1
      /\ f[d + 1] + Len(Y) <= f[(n + 1) + 1]
      /\ whole => f[d + 1] + Len(Y) = f[(n + 1) + 1]
  <2>1. d + 1 \in 1 .. n + 1 /\ n + 1 \in 1 .. n + 1 /\ (n + 1) + 1 = n + 2
    BY <1>1
  <2>2. f[d + 1] = e[d + 1] /\ e[d + 1] \in Nat /\ e[n + 1] \in Nat
    BY <2>1, <1>4, <1>5
  <2>3. f[(n + 1) + 1] = e[n + 1] + Prefix + Len(p)
    BY <2>1, <1>5
  <2>4. e[d + 1] + Len(bytes) = e[n + 1] /\ Len(Y) = Len(bytes) + Len(X)
    BY <1>3, <1>4
  <2>5. Len(X) <= Prefix + Len(p) /\ (whole => Len(X) = Prefix + Len(p))
    OBVIOUS
  <2>6. /\ Len(bytes) \in Nat /\ Len(X) \in Nat /\ Prefix \in Nat /\ Len(p) \in Nat
    BY <1>1
  <2> DEFINE lb == Len(bytes)
             lx == Len(X)
             lp == Len(p)
             ly == Len(Y)
             e1 == e[d + 1]
             e2 == e[n + 1]
             f1 == f[d + 1]
             f2 == f[(n + 1) + 1]
  <2>7. /\ lb \in Nat /\ lx \in Nat /\ Prefix \in Nat /\ lp \in Nat /\ e1 \in Nat /\ e2 \in Nat
        /\ f1 = e1 /\ f2 = e2 + Prefix + lp /\ e1 + lb = e2 /\ ly = lb + lx
        /\ lx <= Prefix + lp /\ (whole => lx = Prefix + lp)
    BY <2>2, <2>3, <2>4, <2>5, <2>6
  <2> HIDE DEF lb, lx, lp, ly, e1, e2, f1, f2
  <2>8. f1 + ly <= f2 /\ (whole => f1 + ly = f2)
    BY <2>7
  <2> QED
    BY <2>8, <2>1, <2>2 DEF ly, f1, f2
<1>9. ASSUME NEW i \in d + 1 .. n + 1, NEW b \in 1 .. Prefix + Len(A[i]),
             f[i] - f[d + 1] + b <= Len(Y)
      PROVE  Y[f[i] - f[d + 1] + b] = FrameByte(A[i], b)
  <2>1. CASE i \in d + 1 .. n
    <3>1. i \in 1 .. n /\ i + 1 \in 1 .. n + 1 /\ i \in 1 .. n + 1 /\ n + 1 \in 1 .. n + 1
          /\ d + 1 <= i /\ i + 1 <= n + 1
      BY <2>1, <1>1
    <3>2. A[i] = frames[i] /\ f[i] = e[i] /\ Len(frames[i]) \in Nat
      BY <3>1, <1>1, <1>2, <1>5
    <3>3. /\ e[i] \in Nat /\ e[i + 1] \in Nat /\ e[n + 1] \in Nat /\ e[d + 1] <= e[i]
          /\ e[i + 1] <= e[n + 1] /\ e[i + 1] = e[i] + Prefix + Len(frames[i])
      BY <3>1, <1>4, <1>8
    <3> DEFINE q == e[i] - e[d + 1] + b
    <3>4. q \in 1 .. Len(bytes) /\ b \in 1 .. Prefix + Len(frames[i])
      <4>1. b \in 1 .. Prefix + Len(frames[i])
        BY <3>2, <1>9
      <4>2. e[d + 1] + Len(bytes) = e[n + 1]
        BY <1>4
      <4>3. e[d + 1] \in Nat /\ Len(bytes) \in Nat /\ Prefix \in Nat
        BY <1>1, <1>8
      <4> DEFINE l == Len(frames[i])
      <4> HIDE DEF l
      <4>4. /\ l \in Nat /\ b \in 1 .. Prefix + l /\ e[i] \in Nat /\ e[i + 1] \in Nat
            /\ e[n + 1] \in Nat /\ e[d + 1] <= e[i] /\ e[i + 1] <= e[n + 1]
            /\ e[i + 1] = e[i] + Prefix + l
        BY <4>1, <3>2, <3>3 DEF l
      <4>5. \A x, y, z, w, u, v \in Nat : \A c \in 1 .. w :
               (u + v = z /\ u <= x /\ y <= z /\ y = x + w) => x - u + c \in 1 .. v
        OBVIOUS
      <4>6. Prefix + l \in Nat /\ e[i + 1] = e[i] + (Prefix + l)
        BY <4>3, <4>4
      <4> HIDE DEF q
      <4>7. e[i] - e[d + 1] + b \in 1 .. Len(bytes)
        BY <4>2, <4>3, <4>4, <4>5, <4>6
      <4> QED
        BY <4>1, <4>7 DEF q
    <3>5. bytes[q] = FrameByte(frames[i], b)
      BY <3>4, <2>1, <1>4
    <3>6. Y[q] = bytes[q]
      <4> HIDE DEF q
      <4>1. q \in 1 .. Len(bytes) + Len(X) /\ q <= Len(bytes)
        BY <3>4, <1>1
      <4> QED
        BY <4>1, <1>3
    <3> QED
      BY <3>2, <3>5, <3>6, <1>8
  <2>2. CASE i = n + 1
    <3>1. n + 1 \in 1 .. n + 1
      BY <1>1
    <3>2. A[i] = p /\ f[i] = e[n + 1] /\ e[n + 1] \in Nat
      BY <3>1, <2>2, <1>2, <1>4, <1>5
    <3>3. f[i] - f[d + 1] + b = Len(bytes) + b
      <4>1. f[d + 1] = e[d + 1] /\ e[d + 1] \in Nat /\ e[d + 1] + Len(bytes) = e[n + 1]
        BY <1>4, <1>8
      <4>2. Len(bytes) \in Nat /\ b \in Int
        BY <3>2, <1>1, <1>9
      <4>3. \A x, y, l \in Nat, c \in Int : x + l = y => y - x + c = l + c
        OBVIOUS
      <4> QED
        BY <3>2, <4>1, <4>2, <4>3
    <3>4. b \in 1 .. Len(X) /\ b \in Nat
      BY <3>2, <3>3, <1>1, <1>3, <1>9
    <3>5. Y[Len(bytes) + b] = X[b]
      <4> DEFINE k == Len(bytes) + b
      <4>1. /\ k \in 1 .. Len(bytes) + Len(X) /\ ~(k <= Len(bytes))
            /\ k - Len(bytes) = b
        BY <3>4, <1>1
      <4> HIDE DEF k
      <4>2. Y[k] = X[k - Len(bytes)]
        BY <4>1, <1>3
      <4> QED
        BY <4>1, <4>2 DEF k
    <3> QED
      BY <3>2, <3>3, <3>4, <3>5
  <2> QED
    BY <2>1, <2>2, <1>1, <1>9
<1>10. Framed(f, A, d, Y, whole)
  BY <1>2, <1>6, <1>7, <1>8, <1>9 DEF Framed
<1>11. f \in Places(Len(frames) + 1)
  <2>1. n + 2 = (n + 1) + 1
    BY <1>1
  <2> QED
    BY <2>1, <1>5 DEF Places, n
<1> QED
  <2>1. FramedBehind(f, e, A, d, Y, whole)
    BY <1>2, <1>5, <1>10 DEF FramedBehind
  <2> QED
    BY <2>1, <1>11 DEF A, Y

\* What is at the front of the bytes is the first frame not used up.
LEMMA FirstFrame ==
    ASSUME NEW frames \in Seq(Packets), NEW d \in 0 .. Len(frames), NEW bytes \in Seq(Nat),
           NEW e \in Places(Len(frames)), NEW whole, Framed(e, frames, d, bytes, whole),
           Len(bytes) >= Prefix
    PROVE  /\ d + 1 \in 1 .. Len(frames)
           /\ frames[d + 1] \in Packets
           /\ \A b \in 1 .. Prefix + Len(frames[d + 1]) :
                 b <= Len(bytes) => bytes[b] = FrameByte(frames[d + 1], b)
           /\ LengthIn(bytes) = Len(frames[d + 1])
<1> DEFINE n == Len(frames)
<1>1. n \in Nat /\ d \in 0 .. n /\ Len(bytes) \in Nat
  OBVIOUS
<1>2. \A i \in 1 .. n : frames[i] \in Packets
  OBVIOUS
<1>3. e \in [1 .. n + 1 -> Nat]
  BY DEF Places
<1>4. /\ e[d + 1] + Len(bytes) <= e[n + 1]
      /\ \A i \in d + 1 .. n : \A b \in 1 .. Prefix + Len(frames[i]) :
            e[i] - e[d + 1] + b <= Len(bytes) =>
                bytes[e[i] - e[d + 1] + b] = FrameByte(frames[i], b)
  BY DEF Framed
<1> HIDE DEF n
<1>5. d + 1 \in 1 .. n + 1 /\ e[d + 1] \in Nat
  BY <1>1, <1>3
<1>6. d + 1 \in 1 .. n
  <2>1. d # n
    BY <1>1, <1>4, <1>5, PrefixFacts
  <2> QED
    BY <2>1, <1>1
<1>7. frames[d + 1] \in Packets /\ d + 1 \in d + 1 .. n
  BY <1>1, <1>2, <1>6
<1>8. ASSUME NEW b \in 1 .. Prefix + Len(frames[d + 1]), b <= Len(bytes)
      PROVE  bytes[b] = FrameByte(frames[d + 1], b)
  <2>1. b \in Nat
    BY <1>7, <1>8, PrefixFacts
  <2>2. e[d + 1] - e[d + 1] + b = b
    BY <2>1, <1>5
  <2> QED
    BY <2>2, <1>4, <1>7, <1>8
<1>9. LengthIn(bytes) = Len(frames[d + 1])
  <2> DEFINE l == Len(frames[d + 1])
             lb == Len(bytes)
             c == Len(Header)
  <2>1. /\ c \in Nat /\ Prefix = c + 4 /\ l \in Nat /\ lb \in Nat /\ lb >= Prefix
        /\ ((l \div 256) \div 256) \div 256 < 256
    <3>1. c \in Nat /\ Prefix = c + 4 /\ l \in Nat
      BY <1>7, PrefixFacts
    <3>2. lb \in Nat /\ lb >= Prefix
      BY <1>1
    <3>3. ((l \div 256) \div 256) \div 256 < 256
      BY <1>7, TcpAssumption
    <3> QED
      BY <3>1, <3>2, <3>3
  <2>2. \A b \in 1 .. Prefix + l : b <= lb => bytes[b] = FrameByte(frames[d + 1], b)
    BY <1>8
  <2>3. ASSUME NEW i \in 1 .. 4 PROVE bytes[c + i] = LengthBytes(l)[i]
    <3> HIDE DEF c, l, lb
    <3>1. /\ c + i \in 1 .. Prefix + l /\ c + i <= lb /\ ~(c + i <= c) /\ c + i <= Prefix
          /\ (c + i) - c = i
      BY <2>1
    <3> QED
      BY <2>2, <3>1 DEF FrameByte, c, l
  <2>4. LengthIn(bytes) = bytes[c + 1] + 256 * (bytes[c + 2] + 256 * (bytes[c + 3]
                             + 256 * bytes[c + 4]))
    BY DEF LengthIn
  <2> HIDE DEF c, l, lb
  <2>5. LengthIn(bytes) = l
    <3> DEFINE v == LengthBytes(l)
    <3>1. v[1] + 256 * (v[2] + 256 * (v[3] + 256 * v[4])) = l
      BY <2>1, LengthFacts
    <3> HIDE DEF v
    <3>2. bytes[c + 1] = v[1] /\ bytes[c + 2] = v[2] /\ bytes[c + 3] = v[3] /\ bytes[c + 4] = v[4]
      BY <2>3 DEF v
    <3> QED
      BY <2>4, <3>1, <3>2
  <2> QED
    BY <2>5 DEF l
<1> QED
  BY <1>6, <1>7, <1>8, <1>9 DEF n

\* The frame at the front, which is all of head, is used up.
LEMMA FramedOneLess ==
    ASSUME NEW frames \in Seq(Packets), NEW d \in 0 .. Len(frames),
           NEW head \in Seq(Nat), NEW rest \in Seq(Nat),
           NEW e \in Places(Len(frames)), NEW whole, Framed(e, frames, d, head \o rest, whole),
           d + 1 \in 1 .. Len(frames), Len(head) = Prefix + Len(frames[d + 1])
    PROVE  Framed(e, frames, d + 1, rest, whole)
<1> DEFINE n == Len(frames)
           bytes == head \o rest
           h == Len(head)
           r == Len(rest)
<1>1. /\ n \in Nat /\ d \in 0 .. n /\ d + 1 \in 1 .. n /\ h \in Nat /\ r \in Nat
      /\ \A i \in 1 .. n : frames[i] \in Packets
  OBVIOUS
<1>2. Prefix \in Nat /\ \A i \in 1 .. n : Len(frames[i]) \in Nat
  BY <1>1, PrefixFacts
<1>3. /\ Len(bytes) = h + r
      /\ \A i \in 1 .. h + r : bytes[i] = IF i <= h THEN head[i] ELSE rest[i - h]
  BY Joining, Zenon
<1>4. e \in [1 .. n + 1 -> Nat]
  BY DEF Places
<1>5. /\ \A i \in 1 .. n : e[i + 1] = e[i] + Prefix + Len(frames[i])
      /\ \A i, j \in 1 .. n + 1 : i <= j => e[i] <= e[j]
      /\ e[d + 1] + Len(bytes) <= e[n + 1]
      /\ whole => e[d + 1] + Len(bytes) = e[n + 1]
      /\ \A i \in d + 1 .. n : \A b \in 1 .. Prefix + Len(frames[i]) :
            e[i] - e[d + 1] + b <= Len(bytes) =>
                bytes[e[i] - e[d + 1] + b] = FrameByte(frames[i], b)
  BY DEF Framed
<1>6. h = Prefix + Len(frames[d + 1])
  OBVIOUS
<1> HIDE DEF n, bytes, h, r
<1>7. /\ d + 1 \in 1 .. n + 1 /\ (d + 1) + 1 \in 1 .. n + 1 /\ n + 1 \in 1 .. n + 1
      /\ e[d + 1] \in Nat /\ e[(d + 1) + 1] \in Nat /\ e[n + 1] \in Nat
  BY <1>1, <1>4
<1>8. e[(d + 1) + 1] = e[d + 1] + h
  <2>1. e[(d + 1) + 1] = e[d + 1] + Prefix + Len(frames[d + 1])
    BY <1>1, <1>5
  <2>2. Len(frames[d + 1]) \in Nat
    BY <1>1, <1>2
  <2> QED
    BY <2>1, <2>2, <1>2, <1>6, <1>7
<1>9. /\ e[(d + 1) + 1] + r <= e[n + 1]
      /\ whole => e[(d + 1) + 1] + r = e[n + 1]
  <2>1. e[d + 1] + (h + r) <= e[n + 1] /\ (whole => e[d + 1] + (h + r) = e[n + 1])
    BY <1>3, <1>5
  <2> QED
    BY <2>1, <1>1, <1>7, <1>8
<1>10. ASSUME NEW i \in (d + 1) + 1 .. n, NEW b \in 1 .. Prefix + Len(frames[i]),
              e[i] - e[(d + 1) + 1] + b <= r
       PROVE  rest[e[i] - e[(d + 1) + 1] + b] = FrameByte(frames[i], b)
  <2>1. i \in 1 .. n /\ i \in d + 1 .. n /\ i \in 1 .. n + 1 /\ (d + 1) + 1 <= i
    BY <1>1, <1>10
  <2>2. e[i] \in Nat /\ e[(d + 1) + 1] <= e[i] /\ b \in Nat /\ b >= 1
    <3>1. e[i] \in Nat /\ e[(d + 1) + 1] <= e[i]
      BY <2>1, <1>4, <1>5, <1>7
    <3>2. Prefix + Len(frames[i]) \in Nat
      BY <2>1, <1>2
    <3>3. b \in Nat /\ b >= 1
      BY <3>2, <1>10
    <3> QED
      BY <3>1, <3>3
  <2> DEFINE q == e[i] - e[(d + 1) + 1] + b
  <2>3. q \in Nat /\ q >= 1 /\ q <= r /\ e[i] - e[d + 1] + b = q + h
    <3>1. q <= r
      BY <1>10
    <3> DEFINE x == e[i]
               y == e[(d + 1) + 1]
               z == e[d + 1]
    <3>2. x \in Nat /\ y \in Nat /\ z \in Nat /\ y <= x /\ y = z + h /\ q = x - y + b
      BY <2>2, <1>7, <1>8
    <3> HIDE DEF x, y, z, q
    <3>3. q \in Nat /\ q >= 1 /\ x - z + b = q + h
      BY <3>2, <2>2, <1>1
    <3> QED
      BY <3>1, <3>3 DEF x, z
  <2> HIDE DEF q
  <2>4. /\ q + h \in 1 .. h + r /\ ~(q + h <= h) /\ (q + h) - h = q /\ q + h <= h + r
    BY <2>3, <1>1
  <2>5. bytes[q + h] = rest[q]
    BY <2>4, <1>3
  <2>6. bytes[q + h] = FrameByte(frames[i], b)
    BY <2>1, <2>3, <2>4, <1>3, <1>5, <1>10
  <2> QED
    BY <2>5, <2>6 DEF q
<1> QED
  BY <1>5, <1>9, <1>10 DEF Framed, n, r

\* The packet in a frame.
LEMMA PacketInFrame ==
    ASSUME NEW p \in Packets, NEW head \in Seq(Nat), Len(head) = Prefix + Len(p),
           \A b \in 1 .. Prefix + Len(p) : head[b] = FrameByte(p, b)
    PROVE  SubSeq(head, Prefix + 1, Len(head)) = p
<1> DEFINE h == Len(head)
<1>1. /\ Prefix \in Nat /\ Len(p) \in Nat /\ Len(p) > 0 /\ p \in Seq(Nat)
      /\ Len(Header) \in Nat /\ Prefix = Len(Header) + 4
  BY PrefixFacts
<1>2. h \in Int /\ h = Prefix + Len(p)
  BY <1>1
<1>3. Prefix + 1 \in Int /\ Prefix + 1 <= h /\ h - (Prefix + 1) + 1 = Len(p)
  BY <1>1, <1>2
<1>4. \A i \in Prefix + 1 .. h : head[i] \in Nat
  BY <1>1, Behind, Zenon
<1> HIDE DEF h
<1>5. /\ SubSeq(head, Prefix + 1, h) \in Seq(Nat)
      /\ Len(SubSeq(head, Prefix + 1, h)) = h - (Prefix + 1) + 1
      /\ \A i \in 1 .. h - (Prefix + 1) + 1 :
            SubSeq(head, Prefix + 1, h)[i] = head[Prefix + 1 + i - 1]
  BY <1>2, <1>3, <1>4, SubSeqProperties
<1> DEFINE t == SubSeq(head, Prefix + 1, h)
<1> HIDE DEF t
<1>6. t \in Seq(Nat) /\ Len(t) = Len(p) /\ \A i \in 1 .. Len(p) : t[i] = head[Prefix + 1 + i - 1]
  BY <1>3, <1>5 DEF t
<1>7. ASSUME NEW i \in 1 .. Len(t) PROVE t[i] = p[i]
  <2>1. /\ i \in Nat /\ Prefix + 1 + i - 1 = Prefix + i /\ i \in 1 .. Len(p)
        /\ Prefix + i \in 1 .. Prefix + Len(p)
        /\ ~(Prefix + i <= Len(Header)) /\ ~(Prefix + i <= Prefix) /\ (Prefix + i) - Prefix = i
    <3>1. i \in Nat /\ i >= 1 /\ i <= Len(p) /\ i \in 1 .. Len(p)
      BY <1>1, <1>6, <1>7
    <3> DEFINE l == Len(p)
    <3>2. l \in Nat /\ i <= l
      BY <1>1, <3>1
    <3> HIDE DEF l
    <3>3. /\ Prefix + 1 + i - 1 = Prefix + i /\ Prefix + i \in 1 .. Prefix + l
          /\ ~(Prefix + i <= Len(Header)) /\ ~(Prefix + i <= Prefix) /\ (Prefix + i) - Prefix = i
      <4> DEFINE c == Len(Header)
      <4>1. c \in Nat /\ Prefix = c + 4 /\ i \in Nat /\ i >= 1
        BY <1>1, <3>1
      <4> HIDE DEF c
      <4>2. /\ Prefix + 1 + i - 1 = Prefix + i /\ Prefix + i \in 1 .. Prefix + l
            /\ ~(Prefix + i <= c) /\ ~(Prefix + i <= Prefix) /\ (Prefix + i) - Prefix = i
        BY <4>1, <3>2
      <4> QED
        BY <4>2 DEF c
    <3> QED
      BY <3>1, <3>3 DEF l
  <2>2. head[Prefix + i] = p[i]
    BY <2>1 DEF FrameByte
  <2> QED
    BY <2>1, <2>2, <1>6
<1> QED
  BY <1>1, <1>6, <1>7, SeqEqual DEF t, h

-----------------------------------------------------------------------------
\* The length behind a header is a number.
LEMMA LengthTyped == \A bytes \in Seq(Nat) : Len(bytes) >= Prefix => LengthIn(bytes) \in Nat
<1> SUFFICES ASSUME NEW bytes \in Seq(Nat), Len(bytes) >= Prefix PROVE LengthIn(bytes) \in Nat
  OBVIOUS
<1> DEFINE c == Len(Header)
<1>1. LengthIn(bytes) = bytes[c + 1] + 256 * (bytes[c + 2] + 256 * (bytes[c + 3]
                           + 256 * bytes[c + 4]))
  BY DEF LengthIn
<1>2. c \in Nat /\ Len(bytes) \in Nat /\ Len(bytes) >= c + 4
  BY PrefixFacts
<1> HIDE DEF c
<1>3. /\ bytes[c + 1] \in Nat /\ bytes[c + 2] \in Nat
      /\ bytes[c + 3] \in Nat /\ bytes[c + 4] \in Nat
  <2>1. c + 1 \in 1 .. Len(bytes) /\ c + 2 \in 1 .. Len(bytes)
    BY <1>2
  <2>2. c + 3 \in 1 .. Len(bytes) /\ c + 4 \in 1 .. Len(bytes)
    BY <1>2
  <2> QED
    BY <2>1, <2>2, ElementOfSeq
<1>4. ASSUME NEW w \in Nat, NEW x \in Nat, NEW y \in Nat, NEW z \in Nat
      PROVE  w + 256 * (x + 256 * (y + 256 * z)) \in Nat
  OBVIOUS
<1> DEFINE w == bytes[c + 1]
           x == bytes[c + 2]
           y == bytes[c + 3]
           z == bytes[c + 4]
<1>5. /\ w \in Nat /\ x \in Nat /\ y \in Nat /\ z \in Nat
      /\ LengthIn(bytes) = w + 256 * (x + 256 * (y + 256 * z))
  BY <1>1, <1>3
<1> HIDE DEF w, x, y, z
<1> QED
  BY <1>4, <1>5

\* A length whose bytes are in the front of others can be had of those.
LEMMA LengthOfFront ==
    ASSUME NEW s \in Seq(Nat), NEW t \in Seq(Nat), Len(s) >= Prefix,
           \A i \in 1 .. Len(s) : t[i] = s[i]
    PROVE  LengthIn(s) = LengthIn(t)
<1> DEFINE c == Len(Header)
<1>1. /\ LengthIn(s) = s[c + 1] + 256 * (s[c + 2] + 256 * (s[c + 3] + 256 * s[c + 4]))
      /\ LengthIn(t) = t[c + 1] + 256 * (t[c + 2] + 256 * (t[c + 3] + 256 * t[c + 4]))
  BY DEF LengthIn
<1>2. c \in Nat /\ Len(s) \in Nat /\ Len(s) >= c + 4
  BY PrefixFacts
<1> HIDE DEF c
<1>3. /\ t[c + 1] = s[c + 1] /\ t[c + 2] = s[c + 2]
      /\ t[c + 3] = s[c + 3] /\ t[c + 4] = s[c + 4]
  <2>1. c + 1 \in 1 .. Len(s) /\ c + 2 \in 1 .. Len(s)
    BY <1>2
  <2>2. c + 3 \in 1 .. Len(s) /\ c + 4 \in 1 .. Len(s)
    BY <1>2
  <2> QED
    BY <2>1, <2>2
<1> QED
  BY <1>1, <1>3

\* What a read leaves: it fits the buffer, and the buffer is bounded.
LEMMA ReadFits ==
    ASSUME mBuffer \in Seq(Nat), stream \in Seq(Nat), bufferSize \in Nat, BufferFits,
           NEW len \in Nat, len <= MaxBucket + Prefix, NEW n \in Nat, ReadTcp(len, n)
    PROVE  /\ n \in 0 .. Len(stream) /\ Len(mBuffer) + n <= len
           /\ bufferSize' \in Nat /\ Len(mBuffer) + n <= bufferSize'
           /\ bufferSize' <= MinBuffer \/ bufferSize' <= 2 * (MaxBucket + Prefix)
           /\ stream' = SubSeq(stream, n + 1, Len(stream))
<1> DEFINE m == Len(mBuffer)
           l == Len(stream)
<1>1. /\ m \in Nat /\ l \in Nat /\ Prefix \in Nat /\ MinBuffer \in Nat /\ MaxBucket \in Nat
  BY PrefixFacts, TcpAssumption
<1>2. /\ len > m /\ n <= len - m /\ n <= l
      /\ stream' = SubSeq(stream, n + 1, Len(stream))
  BY DEF ReadTcp
<1>3. bufferSize' =
          IF bufferSize = 0 THEN (IF len < MinBuffer THEN MinBuffer ELSE len)
          ELSE IF len + m > bufferSize THEN len + m
          ELSE bufferSize
  BY DEF ReadTcp
<1>4. bufferSize <= MinBuffer \/ bufferSize <= 2 * (MaxBucket + Prefix)
  BY DEF BufferFits
<1> HIDE DEF m, l
<1>5. n \in 0 .. l /\ m + n <= len
  BY <1>1, <1>2
<1>6. bufferSize' \in Nat /\ m + n <= bufferSize'
  BY <1>1, <1>2, <1>3
<1>7. bufferSize' <= MinBuffer \/ bufferSize' <= 2 * (MaxBucket + Prefix)
  BY <1>1, <1>2, <1>3, <1>4
<1> QED
  BY <1>2, <1>5, <1>6, <1>7 DEF m, l

\* The first byte of the stream, put behind what was read.
LEMMA OneByte ==
    ASSUME NEW s \in Seq(Nat), NEW t \in Seq(Nat), 1 <= Len(t)
    PROVE  Append(s, Head(t)) = s \o SubSeq(t, 1, 1)
<1>1. Append(s, Head(t)) = s \o <<Head(t)>>
  OBVIOUS
<1>2. SubSeq(t, 1, 1) = <<Head(t)>>
  <2>1. Head(t) = t[1] /\ t[1] \in Nat /\ <<t[1]>> \in Seq(Nat)
    OBVIOUS
  <2>2. SubSeq(t, 1, 1) = <<t[1]>> \o SubSeq(t, 2, 1)
    <3>1. 1 \in 1 .. Len(t) /\ 1 \in 1 .. Len(t)
      OBVIOUS
    <3>2. SubSeq(t, 1, 1) = <<t[1]>> \o SubSeq(t, 1 + 1, 1)
      BY <3>1, SubSeqRecursiveFirst
    <3> QED
      BY <3>2
  <2>3. SubSeq(t, 2, 1) = <<>>
    BY SubSeqEmpty
  <2>4. <<t[1]>> \o <<>> = <<t[1]>>
    BY <2>1, ConcatEmptySeq
  <2> QED
    BY <2>1, <2>2, <2>3, <2>4
<1> QED
  BY <1>1, <1>2

\* What is as long as the header and the start of it is the header.
LEMMA AllOfHeader ==
    ASSUME NEW s \in Seq(Nat), IsPrefix(s, Header), s # Header
    PROVE  Len(s) < Len(Header)
<1>1. Len(s) <= Len(Header) /\ SubSeq(s, 1, Len(s)) = SubSeq(Header, 1, Len(s))
  BY DEF IsPrefix
<1>2. Len(s) # Len(Header)
  <2> SUFFICES ASSUME Len(s) = Len(Header) PROVE FALSE
    OBVIOUS
  <2>1. SubSeq(s, 1, Len(s)) = s /\ SubSeq(Header, 1, Len(Header)) = Header
    BY SubSeqFull, PrefixFacts
  <2> QED
    BY <1>1, <2>1
<1>3. Len(s) \in Nat /\ Len(Header) \in Nat
  BY PrefixFacts
<1> QED
  BY <1>1, <1>2, <1>3

\* No bytes are a run of bytes.
LEMMA NoBytes == <<>> \in Seq(Nat) /\ Len(<<>>) = 0
BY EmptySeq

\* What is in the buffer after a read that keeps it.
LEMMA KeptFits ==
    ASSUME ReadInv, NEW len \in Nat, len <= MaxBucket + Prefix, NEW n \in Nat,
           ReadTcp(len, n), mBuffer' = mBuffer \o SubSeq(stream, 1, n)
    PROVE  /\ mBuffer' \in Seq(Nat) /\ stream' \in Seq(Nat) /\ bufferSize' \in Nat
           /\ Len(mBuffer') = Len(mBuffer) + n /\ Len(mBuffer') <= len
           /\ BufferFits'
           /\ mBuffer' \o stream' = mBuffer \o stream
<1>1. /\ mBuffer \in Seq(Nat) /\ stream \in Seq(Nat) /\ bufferSize \in Nat /\ BufferFits
  BY DEF ReadInv
<1>2. /\ n \in 0 .. Len(stream) /\ Len(mBuffer) + n <= len
      /\ bufferSize' \in Nat /\ Len(mBuffer) + n <= bufferSize'
      /\ bufferSize' <= MinBuffer \/ bufferSize' <= 2 * (MaxBucket + Prefix)
      /\ stream' = SubSeq(stream, n + 1, Len(stream))
  BY <1>1, ReadFits
<1>3. /\ stream' \in Seq(Nat) /\ mBuffer' \in Seq(Nat)
      /\ Len(mBuffer') = Len(mBuffer) + n
      /\ mBuffer' \o stream' = mBuffer \o stream
  BY <1>1, <1>2, Moved, Zenon
<1> QED
  BY <1>2, <1>3 DEF BufferFits

\* What is in the buffer after a read that throws it away.
LEMMA SlipFits ==
    ASSUME ReadInv, NEW len \in Nat, len <= MaxBucket + Prefix, NEW n \in Nat,
           ReadTcp(len, n), mBuffer' = <<>>
    PROVE  /\ mBuffer' \in Seq(Nat) /\ stream' \in Seq(Nat) /\ bufferSize' \in Nat
           /\ Len(mBuffer') = 0 /\ BufferFits'
<1>1. /\ mBuffer \in Seq(Nat) /\ stream \in Seq(Nat) /\ bufferSize \in Nat /\ BufferFits
  BY DEF ReadInv
<1>2. /\ n \in 0 .. Len(stream)
      /\ bufferSize' \in Nat
      /\ bufferSize' <= MinBuffer \/ bufferSize' <= 2 * (MaxBucket + Prefix)
      /\ stream' = SubSeq(stream, n + 1, Len(stream))
  BY <1>1, ReadFits
<1>3. stream' \in Seq(Nat)
  BY <1>1, <1>2, Moved, Zenon
<1>4. mBuffer' \in Seq(Nat) /\ Len(mBuffer') = 0
  BY NoBytes
<1> QED
  BY <1>2, <1>3, <1>4 DEF BufferFits

\* A reader that has read nothing satisfies ReadInv.
LEMMA ReadInitial == TcpInit => ReadInv
<1> SUFFICES ASSUME TcpInit PROVE ReadInv
  OBVIOUS
<1>1. /\ <<>> \in Seq(Nat) /\ <<>> \in Seq(Packets) /\ <<>> \in Seq(Seq(Nat)) /\ Len(<<>>) = 0
  BY EmptySeq
<1>2. MinBuffer \in Nat
  BY TcpAssumption
<1>3. Len(Header) > 1 /\ Prefix \in Nat /\ Len(Header) \in Nat
  BY PrefixFacts
<1>4. /\ mBuffer \in Seq(Nat) /\ stream \in Seq(Nat) /\ sent \in Seq(Packets)
      /\ delivered \in Seq(Seq(Nat)) /\ Len(mBuffer) = 0
      /\ mState = "SYNC" /\ open \in BOOLEAN /\ bufferSize \in Nat /\ bufferSize = 0
  BY <1>1 DEF TcpInit
<1>5. BufferFits
  BY <1>2, <1>4 DEF BufferFits
<1>6. /\ Len(mBuffer) < Len(Header) /\ mState # "HEADER" /\ mState # "DATA"
      /\ mState \in {"SYNC", "HEADER", "DATA"}
  BY <1>3, <1>4
<1> QED
  BY <1>4, <1>5, <1>6, Zenon DEF ReadInv

\* Every step of the writer, the socket and the reader keeps ReadInv.
LEMMA ReadStep == ReadInv /\ [TcpNext]_tcpVars => ReadInv'
<1> SUFFICES ASSUME ReadInv, [TcpNext]_tcpVars PROVE ReadInv'
  OBVIOUS
<1>0. /\ mBuffer \in Seq(Nat) /\ stream \in Seq(Nat) /\ sent \in Seq(Packets)
      /\ delivered \in Seq(Seq(Nat)) /\ bufferSize \in Nat /\ open \in BOOLEAN
      /\ mState \in {"SYNC", "HEADER", "DATA"}
      /\ mState = "SYNC" => Len(mBuffer) < Len(Header)
      /\ mState = "HEADER" => Len(mBuffer) < Prefix
      /\ mState = "DATA" => Len(mBuffer) >= Prefix
      /\ BufferFits
  BY DEF ReadInv
<1>p. /\ Header \in Seq(Nat) /\ Len(Header) \in Nat /\ Prefix \in Nat /\ Len(Header) > 1
      /\ Prefix = Len(Header) + 4 /\ MaxBucket \in Nat /\ MinBuffer \in Nat
  BY PrefixFacts, TcpAssumption
<1>l. Len(mBuffer) \in Nat /\ Len(stream) \in Nat
  BY <1>0
<1>e. /\ <<>> \in Seq(Nat) /\ <<>> \in Seq(Packets) /\ <<>> \in Seq(Seq(Nat)) /\ Len(<<>>) = 0
  BY EmptySeq
<1>1. CASE Dial
  <2>1. /\ mBuffer' \in Seq(Nat) /\ stream' \in Seq(Nat) /\ sent' \in Seq(Packets)
        /\ delivered' \in Seq(Seq(Nat)) /\ Len(mBuffer') = 0
    BY <1>1, <1>e DEF Dial
  <2>2. bufferSize' = bufferSize /\ mState' = "SYNC" /\ open' \in BOOLEAN
    BY <1>1 DEF Dial
  <2>3. BufferFits'
    BY <1>0, <2>1, <2>2 DEF BufferFits
  <2> QED
    BY <1>0, <1>p, <2>1, <2>2, <2>3 DEF ReadInv
<1>w. ASSUME UNCHANGED receiver, sent' \in Seq(Packets), stream' \in Seq(Nat), open' \in BOOLEAN
      PROVE  ReadInv'
  BY <1>0, <1>w DEF ReadInv, BufferFits, receiver
<1>2. ASSUME NEW p \in Packets, WriteTcp(p) PROVE ReadInv'
  <2>1. PICK skip \in WouldBlock :
          /\ stream' = stream \o Joined(Pieces(p), skip)
          /\ sent' = IF skip = 1 .. 3 THEN sent ELSE Append(sent, p)
    BY <1>2 DEF WriteTcp
  <2>2. Joined(Pieces(p), skip) \in Seq(Nat)
    <3>1. p \in Seq(Nat) /\ LengthBytes(Len(p)) \in Seq(Nat)
      BY <1>2, PrefixFacts, LengthFacts
    <3> DEFINE piece(i) == IF i \in skip THEN <<>> ELSE Pieces(p)[i]
    <3>2. piece(1) \in Seq(Nat) /\ piece(2) \in Seq(Nat) /\ piece(3) \in Seq(Nat)
      BY <3>1, <1>e, <1>p DEF Pieces
    <3>3. Joined(Pieces(p), skip) = (piece(1) \o piece(2)) \o piece(3)
      BY DEF Joined
    <3> HIDE DEF piece
    <3>4. piece(1) \o piece(2) \in Seq(Nat)
      BY <3>2, Joining
    <3>5. (piece(1) \o piece(2)) \o piece(3) \in Seq(Nat)
      BY <3>2, <3>4, Joining
    <3> QED
      BY <3>3, <3>5
  <2>3. stream' \in Seq(Nat)
    BY <2>1, <2>2, <1>0, Joining, Zenon
  <2>4. sent' \in Seq(Packets)
    BY <2>1, <1>0, <1>2, SentOne
  <2>5. UNCHANGED receiver /\ open' \in BOOLEAN
    BY <1>0, <1>2 DEF WriteTcp
  <2> QED
    BY <2>3, <2>4, <2>5, <1>w
<1>3. ASSUME NEW p \in Packets, WriteBreaks(p) PROVE ReadInv'
  <2> DEFINE X == Joined(Pieces(p), {})
  <2>1. PICK n \in 1 .. Prefix + Len(p) - 1 : stream' = stream \o SubSeq(X, 1, n)
    BY <1>3 DEF WriteBreaks
  <2>2. X \in Seq(Nat) /\ Len(X) = Prefix + Len(p) /\ Len(p) \in Nat
    BY <1>3, FrameBytes, PrefixFacts
  <2> HIDE DEF X
  <2>3. n \in 0 .. Len(X)
    BY <2>2, <1>p
  <2>4. SubSeq(X, 1, n) \in Seq(Nat)
    BY <2>2, <2>3, <1>e, Moved
  <2>5. stream' \in Seq(Nat)
    BY <2>1, <2>4, <1>0, Joining, Zenon
  <2>6. sent' \in Seq(Packets) /\ UNCHANGED receiver /\ open' \in BOOLEAN
    BY <1>0, <1>3, SentOne DEF WriteBreaks
  <2> QED
    BY <2>5, <2>6, <1>w
<1>r. ASSUME UNCHANGED <<sender, delivered>>, mState' \in {"SYNC", "HEADER", "DATA"},
             mBuffer' \in Seq(Nat), stream' \in Seq(Nat), bufferSize' \in Nat, BufferFits',
             mState' = "SYNC" => Len(mBuffer') < Len(Header),
             mState' = "HEADER" => Len(mBuffer') < Prefix,
             mState' = "DATA" => Len(mBuffer') >= Prefix
      PROVE  ReadInv'
  BY <1>0, <1>r DEF ReadInv, sender
<1>4. CASE Sync
  <2>1. mState = "SYNC" /\ UNCHANGED <<sender, delivered>>
    BY <1>4 DEF Sync
  <2> DEFINE len == Len(mBuffer) + 1
             read == Append(mBuffer, Head(stream))
  <2>2. len \in Nat /\ len <= MaxBucket + Prefix /\ len <= Len(Header)
    BY <1>0, <1>p, <1>l, <2>1
  <2>3. CASE ReadTcp(len, 1) /\ Slip /\ UNCHANGED mState
    <3>1. mBuffer' = <<>> /\ mState' = "SYNC"
      BY <2>3, <2>1 DEF Slip
    <3>2. 1 \in Nat /\ ReadTcp(len, 1)
      BY <2>3
    <3> HIDE DEF len
    <3>3. /\ mBuffer' \in Seq(Nat) /\ stream' \in Seq(Nat) /\ bufferSize' \in Nat
          /\ Len(mBuffer') = 0 /\ BufferFits'
      BY <2>2, <3>1, <3>2, SlipFits
    <3> QED
      BY <3>1, <3>3, <2>1, <1>p, <1>r
  <2>4. CASE /\ ReadTcp(len, 1) /\ IsPrefix(read, Header)
             /\ mBuffer' = read /\ mState' = IF read = Header THEN "HEADER" ELSE "SYNC"
    <3>1. mBuffer' = read /\ mState' = IF read = Header THEN "HEADER" ELSE "SYNC"
      BY <2>4
    <3>2. 1 <= Len(stream) /\ 1 \in Nat /\ ReadTcp(len, 1)
      BY <2>4 DEF ReadTcp
    <3>3. read = mBuffer \o SubSeq(stream, 1, 1)
      BY <3>2, <1>0, OneByte
    <3> HIDE DEF len, read
    <3>4. /\ mBuffer' \in Seq(Nat) /\ stream' \in Seq(Nat) /\ bufferSize' \in Nat
          /\ BufferFits'
      BY <2>2, <3>1, <3>2, <3>3, KeptFits
    <3>5. mState' = "SYNC" => Len(mBuffer') < Len(Header)
      BY <3>1, <3>4, <2>4, AllOfHeader
    <3>6. mState' = "HEADER" => Len(mBuffer') < Prefix
      BY <3>1, <1>p
    <3> QED
      BY <3>1, <3>4, <3>5, <3>6, <2>1, <1>r
  <2>5. CASE ReadTcp(len, 0) /\ Slip /\ UNCHANGED mState
    <3>1. mBuffer' = <<>> /\ mState' = "SYNC" /\ 0 \in Nat /\ ReadTcp(len, 0)
      BY <2>5, <2>1 DEF Slip
    <3> HIDE DEF len
    <3>3. /\ mBuffer' \in Seq(Nat) /\ stream' \in Seq(Nat) /\ bufferSize' \in Nat
          /\ Len(mBuffer') = 0 /\ BufferFits'
      BY <2>2, <3>1, SlipFits
    <3> QED
      BY <3>1, <3>3, <2>1, <1>p, <1>r
  <2> QED
    BY <2>3, <2>4, <2>5, <1>4 DEF Sync
<1>5. CASE ReadHeader
  <2>1. mState = "HEADER" /\ UNCHANGED <<sender, delivered>>
    BY <1>5 DEF ReadHeader
  <2>2. PICK n \in 0 .. Len(stream) :
          /\ ReadTcp(Prefix, n)
          /\ LET read == mBuffer \o SubSeq(stream, 1, n)
             IN  IF Len(read) = Prefix /\ ~HeaderAccepted(read)
                 THEN Slip /\ mState' = "SYNC"
                 ELSE /\ mBuffer' = read /\ UNCHANGED slipped
                      /\ mState' = IF Len(read) = Prefix THEN "DATA" ELSE "HEADER"
    BY <1>5 DEF ReadHeader
  <2>3. n \in Nat /\ Prefix <= MaxBucket + Prefix
    BY <1>l, <1>p
  <2> DEFINE read == mBuffer \o SubSeq(stream, 1, n)
  <2>4. CASE mBuffer' = <<>> /\ mState' = "SYNC"
    <3>1. /\ mBuffer' \in Seq(Nat) /\ stream' \in Seq(Nat) /\ bufferSize' \in Nat
          /\ Len(mBuffer') = 0 /\ BufferFits'
      BY <2>2, <2>3, <2>4, <1>p, SlipFits
    <3> QED
      BY <3>1, <2>1, <2>4, <1>p, <1>r
  <2>5. CASE mBuffer' = read /\ mState' = IF Len(read) = Prefix THEN "DATA" ELSE "HEADER"
    <3>1. /\ mBuffer' \in Seq(Nat) /\ stream' \in Seq(Nat) /\ bufferSize' \in Nat
          /\ Len(mBuffer') = Len(mBuffer) + n /\ Len(mBuffer') <= Prefix /\ BufferFits'
      BY <2>2, <2>3, <2>5, <1>p, KeptFits
    <3>2. mState' = IF Len(mBuffer') = Prefix THEN "DATA" ELSE "HEADER"
      BY <2>5
    <3> QED
      BY <3>1, <3>2, <2>1, <1>p, <1>l, <1>r
  <2> QED
    BY <2>2, <2>4, <2>5 DEF Slip
<1>6. CASE RefuseData
  <2>1. /\ mBuffer' = <<>> /\ mState' = "SYNC" /\ UNCHANGED <<sender, stream, bufferSize, delivered>>
    BY <1>6 DEF RefuseData, Slip
  <2>2. mBuffer' \in Seq(Nat) /\ Len(mBuffer') = 0
    BY <2>1, <1>e
  <2>3. BufferFits'
    BY <2>1, <2>2, <1>0 DEF BufferFits
  <2> QED
    BY <2>1, <2>2, <2>3, <1>0, <1>p, <1>r
<1>7. CASE ReadData
  <2>1. /\ mState = "DATA" /\ mState' = "DATA" /\ UNCHANGED <<sender, delivered>>
        /\ BucketSize <= MaxBucket
    BY <1>7 DEF ReadData
  <2>2. PICK n \in 0 .. Len(stream) :
          /\ ReadTcp(BucketSize + Prefix, n)
          /\ mBuffer' = mBuffer \o SubSeq(stream, 1, n)
    BY <1>7 DEF ReadData
  <2>3. BucketSize \in Nat
    BY <2>1, <1>0, LengthTyped DEF BucketSize
  <2> DEFINE len == BucketSize + Prefix
  <2>4. len \in Nat /\ len <= MaxBucket + Prefix /\ n \in Nat
    BY <2>1, <2>3, <1>p, <1>l
  <2> HIDE DEF len
  <2>5. /\ mBuffer' \in Seq(Nat) /\ stream' \in Seq(Nat) /\ bufferSize' \in Nat
        /\ Len(mBuffer') = Len(mBuffer) + n /\ BufferFits'
    <3>1. ReadTcp(len, n)
      BY <2>2 DEF len
    <3> QED
      BY <3>1, <2>2, <2>4, KeptFits
  <2>6. Len(mBuffer') >= Prefix
    BY <2>1, <2>4, <2>5, <1>0, <1>p, <1>l
  <2> QED
    BY <2>1, <2>5, <2>6, <1>r
<1>8. CASE Deliver
  <2>1. /\ mState = "DATA" /\ mState' = "HEADER" /\ mBuffer' = <<>>
        /\ UNCHANGED <<sender, stream, bufferSize>>
        /\ delivered' = Append(delivered, SubSeq(mBuffer, Prefix + 1, Len(mBuffer)))
    BY <1>8 DEF Deliver
  <2>2. mBuffer' \in Seq(Nat) /\ Len(mBuffer') = 0
    BY <2>1, <1>e
  <2>3. BufferFits'
    BY <2>1, <2>2, <1>0 DEF BufferFits
  <2>4. SubSeq(mBuffer, Prefix + 1, Len(mBuffer)) \in Seq(Nat)
    <3>1. Prefix + 1 \in Int /\ Len(mBuffer) \in Int
      BY <1>p, <1>l
    <3>2. \A i \in Prefix + 1 .. Len(mBuffer) : mBuffer[i] \in Nat
      BY <1>0, <1>p, Behind, Zenon
    <3> HIDE <1>0
    <3> QED
      BY <3>1, <3>2, SubSeqProperties
  <2>5. delivered' \in Seq(Seq(Nat))
    BY <2>1, <2>4, <1>0
  <2> QED
    <3>1. sent' = sent /\ open' = open /\ stream' = stream /\ bufferSize' = bufferSize
      BY <2>1 DEF sender
    <3>2. Len(mBuffer') < Prefix
      BY <2>2, <1>p
    <3> QED
      BY <3>1, <3>2, <2>1, <2>2, <2>3, <2>5, <1>0 DEF ReadInv
<1>9. CASE UNCHANGED tcpVars
  BY <1>9, <1>0, <1>w DEF tcpVars, receiver, sender
<1> QED
  BY <1>1, <1>2, <1>3, <1>4, <1>5, <1>6, <1>7, <1>8, <1>9 DEF TcpNext

\* The reader's place in a frame is right before the first byte.
LEMMA StepInitial == TcpInit => StepInv
<1> SUFFICES ASSUME TcpInit PROVE StepInv
  OBVIOUS
<1>1. sent = <<>> /\ delivered = <<>> /\ mBuffer = <<>> /\ stream = <<>>
  BY DEF TcpInit
<1>2. \E e \in Places(Len(sent)) : Framed(e, sent, Len(delivered), mBuffer \o stream, open)
  BY <1>1, FramedAtFirst, Zenon
<1>3. Len(delivered) = 0 /\ Len(sent) = 0
  BY <1>1, NoBytes
<1> QED
  BY <1>2, <1>3 DEF StepInv

\* The steps after which the same bytes are unused, or the reader is out of step.
LEMMA StepAside ==
    ASSUME StepInv, UNCHANGED <<sent, delivered, open>>, ~torn' => ~torn,
           slipped' \/ (UNCHANGED slipped /\ mBuffer' \o stream' = mBuffer \o stream)
    PROVE  StepInv'
<1> SUFFICES ASSUME ~torn', ~slipped'
             PROVE  /\ Len(delivered') <= Len(sent')
                    /\ \A i \in 1 .. Len(delivered') : delivered'[i] = sent'[i]
                    /\ \E e \in Places(Len(sent')) :
                          Framed(e, sent', Len(delivered'), mBuffer' \o stream', open')
  BY DEF StepInv
<1>1. /\ sent' = sent /\ delivered' = delivered /\ open' = open /\ ~torn /\ ~slipped
      /\ mBuffer' \o stream' = mBuffer \o stream
  OBVIOUS
<1> QED
  BY <1>1, Zenon DEF StepInv

\* The delivery of any number of bytes keeps the reader's place right.
LEMMA DeliverInStep == ReadInv /\ StepInv /\ Deliver => StepInv'
<1> SUFFICES ASSUME ReadInv, StepInv, Deliver, ~torn', ~slipped'
             PROVE  /\ Len(delivered') <= Len(sent')
                    /\ \A i \in 1 .. Len(delivered') : delivered'[i] = sent'[i]
                    /\ \E e \in Places(Len(sent')) :
                          Framed(e, sent', Len(delivered'), mBuffer' \o stream', open')
  BY DEF StepInv
<1> DEFINE d == Len(delivered)
<1>1. /\ ~torn /\ ~slipped /\ sent' = sent /\ open' = open /\ stream' = stream
      /\ mBuffer' = <<>> /\ Len(mBuffer) = LengthIn(mBuffer) + Prefix
      /\ delivered' = Append(delivered, SubSeq(mBuffer, Prefix + 1, Len(mBuffer)))
  BY DEF Deliver, sender, BucketSize
<1>2. /\ mBuffer \in Seq(Nat) /\ stream \in Seq(Nat) /\ sent \in Seq(Packets)
      /\ delivered \in Seq(Seq(Nat)) /\ Len(mBuffer) >= Prefix
  BY DEF ReadInv, Deliver
<1>3. /\ d <= Len(sent)
      /\ \A i \in 1 .. d : delivered[i] = sent[i]
  BY <1>1 DEF StepInv
<1>4. PICK e \in Places(Len(sent)) : Framed(e, sent, d, mBuffer \o stream, open)
  BY <1>1, Zenon DEF StepInv
<1>5. /\ Len(mBuffer) \in Nat /\ Len(stream) \in Nat /\ Len(sent) \in Nat /\ d \in Nat
      /\ d \in 0 .. Len(sent) /\ Prefix \in Nat
  BY <1>2, <1>3, PrefixFacts
<1>6. /\ mBuffer \o stream \in Seq(Nat)
      /\ Len(mBuffer \o stream) = Len(mBuffer) + Len(stream)
      /\ \A i \in 1 .. Len(mBuffer) + Len(stream) :
            (mBuffer \o stream)[i] = IF i <= Len(mBuffer) THEN mBuffer[i] ELSE stream[i - Len(mBuffer)]
  BY <1>2, Joining, Zenon
<1> DEFINE bytes == mBuffer \o stream
<1> HIDE DEF bytes, d
<1>7. Len(bytes) >= Prefix
  BY <1>2, <1>5, <1>6 DEF bytes
<1>8. /\ d + 1 \in 1 .. Len(sent) /\ sent[d + 1] \in Packets
      /\ \A b \in 1 .. Prefix + Len(sent[d + 1]) :
            b <= Len(bytes) => bytes[b] = FrameByte(sent[d + 1], b)
      /\ LengthIn(bytes) = Len(sent[d + 1])
  <2>1. bytes \in Seq(Nat) /\ Framed(e, sent, d, bytes, open)
    BY <1>4, <1>6 DEF bytes, d
  <2> QED
    BY <1>2, <1>5, <1>7, <2>1, FirstFrame
<1>9. \A i \in 1 .. Len(mBuffer) : bytes[i] = mBuffer[i]
  BY <1>5, <1>6 DEF bytes
<1>10. Len(mBuffer) = Prefix + Len(sent[d + 1])
  <2>1. bytes \in Seq(Nat)
    BY <1>6 DEF bytes
  <2>2. LengthIn(mBuffer) = Len(sent[d + 1]) /\ Len(sent[d + 1]) \in Nat
    BY <2>1, <1>2, <1>8, <1>9, LengthOfFront, PrefixFacts
  <2> QED
    BY <2>2, <1>1, <1>5
<1>11. \A b \in 1 .. Prefix + Len(sent[d + 1]) : mBuffer[b] = FrameByte(sent[d + 1], b)
  <2>1. Len(bytes) = Len(mBuffer) + Len(stream)
    BY <1>6 DEF bytes
  <2> SUFFICES ASSUME NEW b \in 1 .. Len(mBuffer)
               PROVE  mBuffer[b] = FrameByte(sent[d + 1], b)
    BY <1>10
  <2>2. b <= Len(bytes)
    BY <2>1, <1>5
  <2> QED
    BY <2>2, <1>8, <1>9, <1>10
<1>12. SubSeq(mBuffer, Prefix + 1, Len(mBuffer)) = sent[d + 1]
  BY <1>2, <1>8, <1>10, <1>11, PacketInFrame
<1>13. Framed(e, sent, d + 1, stream, open)
  BY <1>2, <1>4, <1>5, <1>8, <1>10, FramedOneLess DEF d
<1>14. mBuffer' \o stream' = stream
  BY <1>1, <1>2, ConcatEmptySeq
<1>15. /\ Len(delivered') = d + 1
       /\ \A i \in 1 .. d : delivered'[i] = delivered[i]
       /\ delivered'[d + 1] = sent[d + 1]
  <2>1. sent[d + 1] \in Seq(Nat)
    BY <1>8, PrefixFacts
  <2>2. delivered' = Append(delivered, sent[d + 1])
    BY <1>1, <1>12
  <2> QED
    BY <2>1, <2>2, <1>2 DEF d
<1>16. \A i \in 1 .. d + 1 : delivered'[i] = sent[i]
  <2>1. \A i \in 1 .. d + 1 : i \in 1 .. d \/ i = d + 1
    BY <1>5
  <2> QED
    BY <2>1, <1>3, <1>15 DEF d
<1>17. Len(delivered') <= Len(sent)
  BY <1>5, <1>8, <1>15
<1>18. \E f \in Places(Len(sent)) : Framed(f, sent, Len(delivered'), mBuffer' \o stream', open)
  BY <1>13, <1>14, <1>15, Zenon
<1> QED
  BY <1>1, <1>15, <1>16, <1>17, <1>18

\* A frame behind the others, of which X was sent.
LEMMA SendInStep ==
    ASSUME ReadInv, StepInv, ~torn', ~slipped', UNCHANGED receiver, torn' => torn, ~torn, open,
           NEW p \in Packets, NEW X \in Seq(Nat), Len(X) <= Prefix + Len(p),
           \A b \in 1 .. Len(X) : X[b] = FrameByte(p, b),
           stream' = stream \o X, sent' = Append(sent, p),
           open' \in BOOLEAN, open' => Len(X) = Prefix + Len(p)
    PROVE  StepInv'
<1> DEFINE d == Len(delivered)
<1>1. /\ mBuffer \in Seq(Nat) /\ stream \in Seq(Nat) /\ sent \in Seq(Packets)
      /\ delivered \in Seq(Seq(Nat)) /\ open = TRUE
  BY DEF ReadInv
<1>2. /\ mBuffer' = mBuffer /\ slipped' = slipped /\ delivered' = delivered
  BY DEF receiver
<1>3. /\ d <= Len(sent) /\ \A i \in 1 .. d : delivered[i] = sent[i]
  BY <1>2 DEF StepInv
<1>4. PICK e \in Places(Len(sent)) : Framed(e, sent, d, mBuffer \o stream, TRUE)
  BY <1>1, <1>2, Zenon DEF StepInv
<1>5. d \in 0 .. Len(sent) /\ Len(sent) \in Nat /\ d \in Nat
  BY <1>1, <1>3
<1>6. mBuffer \o stream \in Seq(Nat) /\ mBuffer' \o stream' = (mBuffer \o stream) \o X
  <2>1. mBuffer' \o stream' = mBuffer \o (stream \o X)
    BY <1>2, Zenon
  <2>2. (mBuffer \o stream) \o X = mBuffer \o (stream \o X)
    BY <1>1, JoiningThree, Zenon
  <2>3. mBuffer \o stream \in Seq(Nat)
    BY <1>1, Joining, Zenon
  <2> QED
    BY <2>1, <2>2, <2>3, Zenon
<1> HIDE DEF d
<1>7. \E f \in Places(Len(sent) + 1) :
          Framed(f, Append(sent, p), d, (mBuffer \o stream) \o X, open')
  <2> DEFINE bytes == mBuffer \o stream
  <2>1. bytes \in Seq(Nat) /\ Framed(e, sent, d, bytes, TRUE)
    BY <1>4, <1>6 DEF d
  <2> HIDE DEF bytes
  <2>2. \E f \in Places(Len(sent) + 1) : Framed(f, Append(sent, p), d, bytes \o X, open')
    BY <1>1, <1>5, <2>1, FramedOneMore DEF FramedBehind
  <2> QED
    BY <2>2 DEF bytes
<1>8. /\ Len(sent') = Len(sent) + 1 /\ \A i \in 1 .. Len(sent) : sent'[i] = sent[i]
  BY <1>1, SentOne
<1>9. \E f \in Places(Len(sent')) : Framed(f, sent', Len(delivered'), mBuffer' \o stream', open')
  BY <1>2, <1>6, <1>7, <1>8, Zenon DEF d
<1>10. Len(delivered') <= Len(sent') /\ \A i \in 1 .. Len(delivered') : delivered'[i] = sent'[i]
  BY <1>2, <1>3, <1>5, <1>8 DEF d
<1> QED
  BY <1>9, <1>10 DEF StepInv

\* Every step keeps the reader's place right.
LEMMA StepStep == ReadInv /\ StepInv /\ [TcpNext]_tcpVars => StepInv'
<1> SUFFICES ASSUME ReadInv, StepInv, [TcpNext]_tcpVars PROVE StepInv'
  OBVIOUS
<1>0. mBuffer \in Seq(Nat) /\ stream \in Seq(Nat) /\ Len(stream) \in Nat
  BY DEF ReadInv
<1>1. CASE Dial
  <2>1. sent' = <<>> /\ delivered' = <<>> /\ mBuffer' = <<>> /\ stream' = <<>>
    BY <1>1 DEF Dial
  <2>2. \E e \in Places(Len(sent')) : Framed(e, sent', Len(delivered'), mBuffer' \o stream', open')
    BY <2>1, FramedAtFirst, Zenon
  <2>3. Len(delivered') = 0 /\ Len(sent') = 0
    BY <2>1, NoBytes
  <2> QED
    BY <2>2, <2>3 DEF StepInv
<1>2. ASSUME NEW p \in Packets, WriteTcp(p) PROVE StepInv'
  <2>1. PICK skip \in WouldBlock :
          /\ stream' = stream \o Joined(Pieces(p), skip)
          /\ sent' = IF skip = 1 .. 3 THEN sent ELSE Append(sent, p)
          /\ torn' = (torn \/ skip \notin {{}, 1 .. 3})
    BY <1>2 DEF WriteTcp
  <2>2. open = TRUE /\ open' = TRUE /\ UNCHANGED receiver
    BY <1>2 DEF WriteTcp, ReadInv
  <2> SUFFICES ASSUME ~torn', ~slipped' PROVE StepInv'
    BY DEF StepInv
  <2>3. ~torn /\ (skip = {} \/ skip = 1 .. 3)
    BY <2>1
  <2>4. CASE skip = 1 .. 3
    <3>1. 1 \in skip /\ 2 \in skip /\ 3 \in skip
      BY <2>4
    <3>2. Joined(Pieces(p), skip) = (<<>> \o <<>>) \o <<>>
      BY <3>1, Zenon DEF Joined
    <3>3. <<>> \o <<>> = <<>>
      BY ConcatEmptySeq
    <3>4. stream' = stream
      BY <3>2, <3>3, <2>1, <1>0, ConcatEmptySeq
    <3>5. mBuffer' = mBuffer /\ slipped' = slipped /\ delivered' = delivered
      BY <2>2 DEF receiver
    <3>6. ~torn
      BY <2>3
    <3>7. mBuffer' \o stream' = mBuffer \o stream /\ sent' = sent /\ open' = open
      BY <3>4, <3>5, <2>1, <2>2, <2>4
    <3> QED
      BY <3>5, <3>6, <3>7, StepAside
  <2>5. CASE skip = {}
    <3> DEFINE X == Joined(Pieces(p), {})
    <3>1. /\ X \in Seq(Nat) /\ Len(X) = Prefix + Len(p)
          /\ \A b \in 1 .. Prefix + Len(p) : X[b] = FrameByte(p, b)
      BY <1>2, FrameBytes
    <3>2. stream' = stream \o X
      BY <2>1, <2>5
    <3>3. {} # 1 .. 3
      OBVIOUS
    <3>4. sent' = Append(sent, p)
      BY <3>3, <2>1, <2>5
    <3> HIDE DEF X
    <3>5. Len(X) <= Prefix + Len(p)
      BY <3>1, <1>2, PrefixFacts
    <3>6. \A b \in 1 .. Len(X) : X[b] = FrameByte(p, b)
      BY <3>1
    <3> QED
      BY <3>1, <3>2, <3>4, <3>5, <3>6, <2>2, <2>3, <1>2, SendInStep, Zenon
  <2> QED
    BY <2>3, <2>4, <2>5
<1>3. ASSUME NEW p \in Packets, WriteBreaks(p) PROVE StepInv'
  <2> DEFINE X == Joined(Pieces(p), {})
  <2>1. PICK n \in 1 .. Prefix + Len(p) - 1 : stream' = stream \o SubSeq(X, 1, n)
    BY <1>3 DEF WriteBreaks
  <2>2. open /\ open' = FALSE /\ sent' = Append(sent, p) /\ torn' = torn /\ UNCHANGED receiver
    BY <1>3 DEF WriteBreaks
  <2> SUFFICES ASSUME ~torn', ~slipped' PROVE StepInv'
    BY DEF StepInv
  <2> DEFINE Y == SubSeq(X, 1, n)
  <2>3. StartsFrame(Y, p)
    BY <1>3, FrameCut, Zenon
  <2> HIDE DEF X, Y
  <2>7. stream' = stream \o Y
    BY <2>1 DEF X, Y
  <2>8. open' \in BOOLEAN /\ ~open' /\ ~torn
    BY <2>2
  <2> QED
    BY <2>2, <2>3, <2>7, <2>8, <1>3, SendInStep, Zenon DEF StartsFrame
<1>r. ASSUME UNCHANGED <<sender, delivered>>,
             slipped' \/ (UNCHANGED slipped /\ mBuffer' \o stream' = mBuffer \o stream)
      PROVE  StepInv'
  BY <1>r, StepAside DEF sender
<1>4. CASE Sync
  <2>1. UNCHANGED <<sender, delivered>>
    BY <1>4 DEF Sync
  <2>2. CASE slipped'
    BY <2>1, <2>2, <1>r
  <2>3. CASE ~slipped'
    <3>1. /\ ReadTcp(Len(mBuffer) + 1, 1) /\ UNCHANGED slipped
          /\ mBuffer' = Append(mBuffer, Head(stream))
      BY <1>4, <2>3 DEF Sync, Slip
    <3>2. 1 <= Len(stream) /\ stream' = SubSeq(stream, 1 + 1, Len(stream)) /\ 1 \in 0 .. Len(stream)
      BY <3>1, <1>0 DEF ReadTcp
    <3>3. mBuffer' = mBuffer \o SubSeq(stream, 1, 1)
      BY <3>1, <3>2, <1>0, OneByte
    <3>4. (mBuffer \o SubSeq(stream, 1, 1)) \o SubSeq(stream, 1 + 1, Len(stream)) = mBuffer \o stream
      BY <3>2, <1>0, Moved, Zenon
    <3>5. mBuffer' \o stream' = mBuffer \o stream
      BY <3>2, <3>3, <3>4, Zenon
    <3> QED
      BY <3>1, <3>5, <2>1, <1>r
  <2> QED
    BY <2>2, <2>3
<1>m. ASSUME NEW n \in 0 .. Len(stream), NEW len, ReadTcp(len, n),
             mBuffer' = mBuffer \o SubSeq(stream, 1, n)
      PROVE  mBuffer' \o stream' = mBuffer \o stream
  <2>1. stream' = SubSeq(stream, n + 1, Len(stream))
    BY <1>m DEF ReadTcp
  <2>2. (mBuffer \o SubSeq(stream, 1, n)) \o SubSeq(stream, n + 1, Len(stream)) = mBuffer \o stream
    BY <1>0, <1>m, Moved, Zenon
  <2> QED
    BY <2>1, <2>2, <1>m, Zenon
<1>5. CASE ReadHeader
  <2>1. PICK n \in 0 .. Len(stream) :
          /\ ReadTcp(Prefix, n)
          /\ slipped' \/ (mBuffer' = mBuffer \o SubSeq(stream, 1, n) /\ UNCHANGED slipped)
    BY <1>5, Zenon DEF ReadHeader, Slip
  <2>2. UNCHANGED <<sender, delivered>>
    BY <1>5 DEF ReadHeader
  <2> QED
    BY <2>1, <2>2, <1>m, <1>r, Zenon
<1>6. CASE RefuseData
  BY <1>6, <1>r DEF RefuseData, Slip
<1>7. CASE ReadData
  <2>1. PICK n \in 0 .. Len(stream) :
          ReadTcp(BucketSize + Prefix, n) /\ mBuffer' = mBuffer \o SubSeq(stream, 1, n)
    BY <1>7 DEF ReadData
  <2>2. UNCHANGED <<sender, slipped, delivered>>
    BY <1>7 DEF ReadData
  <2> QED
    BY <2>1, <2>2, <1>m, <1>r, Zenon
<1>8. CASE Deliver
  BY <1>8, DeliverInStep
<1>9. CASE UNCHANGED tcpVars
  BY <1>9, <1>r DEF tcpVars, receiver
<1> QED
  BY <1>1, <1>2, <1>3, <1>4, <1>5, <1>6, <1>7, <1>8, <1>9 DEF TcpNext

\* What is delivered is the start of what was sent, and all of it once nothing is unused.
LEMMA ReadInStep == ReadInv /\ StepInv => InStep
<1> SUFFICES ASSUME ReadInv, StepInv, ~torn, ~slipped
             PROVE  /\ IsPrefix(delivered, sent)
                    /\ (open /\ stream = <<>> /\ mBuffer = <<>>) => delivered = sent
  BY DEF InStep
<1> DEFINE d == Len(delivered)
           n == Len(sent)
<1>1. /\ sent \in Seq(Packets) /\ delivered \in Seq(Seq(Nat)) /\ d \in Nat /\ n \in Nat
      /\ d <= n /\ \A i \in 1 .. d : delivered[i] = sent[i]
  BY DEF ReadInv, StepInv
<1>2. sent \in Seq(Seq(Nat))
  <2>1. Packets \subseteq Seq(Nat)
    BY PrefixFacts
  <2> QED
    BY <2>1, <1>1, SeqMonotonic
<1>3. IsPrefix(delivered, sent)
  <2>1. SubSeq(delivered, 1, d) = delivered
    BY <1>1, SubSeqFull
  <2>2. /\ SubSeq(sent, 1, d) \in Seq(Seq(Nat)) /\ Len(SubSeq(sent, 1, d)) = d
        /\ \A i \in 1 .. d : SubSeq(sent, 1, d)[i] = sent[i]
    <3>1. 1 \in Int /\ d \in Int
      BY <1>1
    <3>2. \A i \in 1 .. d : sent[i] \in Seq(Nat)
      BY <1>1, <1>2
    <3> HIDE DEF d
    <3>3. /\ SubSeq(sent, 1, d) \in Seq(Seq(Nat))
          /\ Len(SubSeq(sent, 1, d)) = IF 1 <= d THEN d - 1 + 1 ELSE 0
          /\ \A i \in 1 .. d - 1 + 1 : SubSeq(sent, 1, d)[i] = sent[1 + i - 1]
      BY <3>1, <3>2, SubSeqProperties
    <3> DEFINE t == SubSeq(sent, 1, d)
    <3> HIDE DEF t
    <3>4. /\ t \in Seq(Seq(Nat)) /\ Len(t) = IF 1 <= d THEN d - 1 + 1 ELSE 0
          /\ \A i \in 1 .. d - 1 + 1 : t[i] = sent[1 + i - 1]
      BY <3>3 DEF t
    <3>5. d - 1 + 1 = d /\ \A i \in 1 .. d : 1 + i - 1 = i
      BY <1>1
    <3> QED
      BY <3>4, <3>5, <1>1 DEF t
  <2> DEFINE t == SubSeq(sent, 1, d)
  <2> HIDE DEF t
  <2>3. t \in Seq(Seq(Nat)) /\ Len(t) = Len(delivered) /\ \A i \in 1 .. Len(delivered) : delivered[i] = t[i]
    BY <2>2, <1>1 DEF t
  <2>4. delivered = t
    BY <2>3, <1>1, SeqEqual
  <2> QED
    BY <2>1, <2>4, <1>1 DEF IsPrefix, t
<1>4. ASSUME open, stream = <<>>, mBuffer = <<>> PROVE delivered = sent
  <2>1. mBuffer \o stream = <<>> /\ Len(<<>>) = 0
    BY <1>4, ConcatEmptySeq, NoBytes
  <2>2. PICK e \in Places(n) : Framed(e, sent, d, mBuffer \o stream, open)
    BY Zenon DEF StepInv
  <2>3. Len(mBuffer \o stream) = 0
    BY <2>1
  <2>4. /\ \A i \in 1 .. n : e[i + 1] = e[i] + Prefix + Len(sent[i])
        /\ \A i, j \in 1 .. n + 1 : i <= j => e[i] <= e[j]
        /\ e[d + 1] + 0 = e[n + 1]
    BY <2>2, <2>3, <1>4 DEF Framed
  <2>5. e \in [1 .. n + 1 -> Nat]
    BY <2>2 DEF Places
  <2> HIDE DEF d, n
  <2>6. d = n
    <3> SUFFICES ASSUME d # n PROVE FALSE
      OBVIOUS
    <3>1. d + 1 \in 1 .. n /\ d + 1 \in 1 .. n + 1 /\ (d + 1) + 1 \in 1 .. n + 1
          /\ n + 1 \in 1 .. n + 1 /\ (d + 1) + 1 <= n + 1
      BY <1>1
    <3>2. e[(d + 1) + 1] <= e[n + 1] /\ e[(d + 1) + 1] = e[d + 1] + Prefix + Len(sent[d + 1])
      BY <3>1, <2>4
    <3>3. sent[d + 1] \in Packets
      BY <3>1, <1>1 DEF n
    <3>4. Len(sent[d + 1]) \in Nat /\ Prefix \in Nat /\ Len(sent[d + 1]) > 0
      BY <3>3, PrefixFacts
    <3>5. e[d + 1] \in Nat /\ e[n + 1] \in Nat /\ e[(d + 1) + 1] \in Nat
      BY <3>1, <2>5
    <3> DEFINE l == Len(sent[d + 1])
    <3> HIDE DEF l
    <3>6. l \in Nat /\ l > 0 /\ e[(d + 1) + 1] = e[d + 1] + Prefix + l
      BY <3>2, <3>4 DEF l
    <3> QED
      BY <3>2, <3>4, <3>5, <3>6, <2>4
  <2>7. Len(delivered) = Len(sent) /\ \A i \in 1 .. Len(delivered) : delivered[i] = sent[i]
    BY <2>6, <1>1 DEF d, n
  <2> QED
    BY <2>7, <1>1, <1>2, SeqEqual
<1> QED
  BY <1>3, <1>4

\* The Unreal server: as long as whole frames are written and nothing was thrown
\* away, what it delivers is what was sent.
THEOREM TcpInStep == TcpSpec => []InStep
<1>1. TcpInit => ReadInv /\ StepInv
  BY ReadInitial, StepInitial
<1>2. ReadInv /\ StepInv /\ [TcpNext]_tcpVars => (ReadInv /\ StepInv)'
  BY ReadStep, StepStep
<1> QED
  BY <1>1, <1>2, ReadInStep, PTL DEF TcpSpec

\* Its buffer holds what is read, and has a bound, whatever lengths it reads.
THEOREM TcpBufferFits == TcpSpec => []BufferFits
<1>1. ReadInv => BufferFits
  BY DEF ReadInv
<1> QED
  BY <1>1, ReadInitial, ReadStep, PTL DEF TcpSpec

-----------------------------------------------------------------------------
(* The reader that has thrown something away, and frames in which there is *)
(* no header but at the start.                                             *)

NoHeaders(frames) == \A i \in DOMAIN frames : ~HeaderIn(frames[i])

\* bytes are those behind the first p of F.
Rest(F, p, bytes) ==
    /\ F \in Seq(Nat) /\ p \in Nat /\ bytes \in Seq(Nat) /\ Len(F) = p + Len(bytes)
    /\ \A j \in 1 .. Len(bytes) : bytes[j] = F[p + j]

\* What was delivered are frames before p, in order: got[k] is frame g[k].
Taken(g, e, p, frames, got) ==
    /\ g \in [1 .. Len(got) -> 1 .. Len(frames)]
    /\ \A k \in 1 .. Len(got) :
          /\ got[k] = frames[g[k]] /\ e[g[k] + 1] <= p
          /\ k > 1 => g[k - 1] < g[k]

AtStart(e, p, n) == \E i \in 1 .. n + 1 : e[i] = p

\* Of all the bytes of the frames, p were delivered or thrown away, and bytes are
\* unused.  A reader that has found a header is where a frame starts.
Reading(frames, whole, bytes, got, found) ==
    \E e \in Places(Len(frames)), F \in Seq(Nat), p \in Nat :
        /\ e[1] = 0 /\ Framed(e, frames, 0, F, whole) /\ Rest(F, p, bytes)
        /\ \E g : Taken(g, e, p, frames, got)
        /\ found => AtStart(e, p, Len(frames))

Found == mState # "SYNC"

\* What is in the buffer and the stream is behind what was delivered or thrown away.
WholeInv ==
    ~torn /\ NoHeaders(sent) =>
        Reading(sent, open, mBuffer \o stream, delivered, Found)

\* The places, and what Framed says of them, with nothing used up.
LEMMA FromTheStart ==
    ASSUME NEW frames \in Seq(Packets), NEW e \in Places(Len(frames)), NEW F \in Seq(Nat),
           NEW whole, Framed(e, frames, 0, F, whole), e[1] = 0
    PROVE  /\ \A i \in 1 .. Len(frames) + 1 : e[i] \in Nat
           /\ \A i \in 1 .. Len(frames) :
                 e[i] \in Nat /\ e[i + 1] \in Nat /\ e[i + 1] = e[i] + Prefix + Len(frames[i])
           /\ \A i, j \in 1 .. Len(frames) + 1 : i <= j => e[i] <= e[j]
           /\ Len(F) <= e[Len(frames) + 1] /\ (whole => Len(F) = e[Len(frames) + 1])
           /\ \A i \in 1 .. Len(frames) : \A b \in 1 .. Prefix + Len(frames[i]) :
                 e[i] + b <= Len(F) => F[e[i] + b] = FrameByte(frames[i], b)
<1> DEFINE n == Len(frames)
<1>1. n \in Nat /\ Len(F) \in Nat /\ Prefix \in Nat /\ \A i \in 1 .. n : Len(frames[i]) \in Nat
  BY PrefixFacts
<1>2. e \in [1 .. n + 1 -> Nat]
  BY DEF Places
<1>3. /\ \A i \in 1 .. n : e[i + 1] = e[i] + Prefix + Len(frames[i])
      /\ \A i, j \in 1 .. n + 1 : i <= j => e[i] <= e[j]
      /\ e[0 + 1] + Len(F) <= e[n + 1]
      /\ whole => e[0 + 1] + Len(F) = e[n + 1]
      /\ \A i \in 0 + 1 .. n : \A b \in 1 .. Prefix + Len(frames[i]) :
            e[i] - e[0 + 1] + b <= Len(F) => F[e[i] - e[0 + 1] + b] = FrameByte(frames[i], b)
  BY DEF Framed
<1> HIDE DEF n
<1>4. \A i \in 1 .. n + 1 : e[i] \in Nat
  BY <1>2
<1>5. \A i \in 1 .. n : i \in 1 .. n + 1 /\ i + 1 \in 1 .. n + 1
  BY <1>1
<1>6. 0 + 1 = 1 /\ n + 1 \in 1 .. n + 1
  BY <1>1
<1>7. Len(F) <= e[n + 1] /\ (whole => Len(F) = e[n + 1])
  BY <1>1, <1>3, <1>4, <1>6
<1>8. ASSUME NEW i \in 1 .. n, NEW b \in 1 .. Prefix + Len(frames[i]), e[i] + b <= Len(F)
      PROVE  F[e[i] + b] = FrameByte(frames[i], b)
  <2>1. e[i] \in Nat /\ b \in Nat
    BY <1>1, <1>4, <1>5, <1>8
  <2>2. e[i] - e[0 + 1] + b = e[i] + b
    BY <2>1, <1>6
  <2> QED
    BY <2>2, <1>3, <1>6, <1>8
<1> QED
  BY <1>3, <1>4, <1>5, <1>7, <1>8 DEF n

\* What is behind the header in a frame: the length and the packet.
LEMMA BodyBytes ==
    ASSUME NEW p \in Packets
    PROVE  /\ Len(LengthBytes(Len(p)) \o p) = 4 + Len(p)
           /\ \A k \in 1 .. 4 + Len(p) :
                 (LengthBytes(Len(p)) \o p)[k] = FrameByte(p, Len(Header) + k)
<1> DEFINE v == LengthBytes(Len(p))
           l == Len(p)
           c == Len(Header)
           body == v \o p
<1>1. p \in Seq(Nat) /\ l \in Nat /\ c \in Nat /\ Prefix = c + 4
  BY PrefixFacts
<1>2. v \in Seq(Nat) /\ Len(v) = 4
  BY <1>1, LengthFacts
<1>3. \A b : FrameByte(p, b) = IF b <= c THEN Header[b]
                               ELSE IF b <= Prefix THEN v[b - c] ELSE p[b - Prefix]
  BY DEF FrameByte
<1> HIDE DEF v
<1>4. Len(body) = 4 + l /\ \A k \in 1 .. 4 + l : body[k] = IF k <= 4 THEN v[k] ELSE p[k - 4]
  <2>1. /\ Len(v \o p) = Len(v) + Len(p)
        /\ \A k \in 1 .. Len(v) + Len(p) :
              (v \o p)[k] = IF k <= Len(v) THEN v[k] ELSE p[k - Len(v)]
    BY <1>1, <1>2, Joining, Zenon
  <2> QED
    BY <2>1, <1>2, Zenon
<1> HIDE DEF l, c, body
<1>5. ASSUME NEW k \in 1 .. 4 + l PROVE body[k] = FrameByte(p, c + k)
  <2>1. /\ k \in Nat /\ ~(c + k <= c) /\ (c + k <= Prefix <=> k <= 4)
        /\ (c + k) - c = k /\ (c + k) - Prefix = k - 4
    BY <1>1, <1>5
  <2> QED
    BY <2>1, <1>3, <1>4, <1>5
<1> QED
  BY <1>4, <1>5 DEF v, l, c, body

\* A header behind that of a frame is in the length and the packet.
LEMMA HeaderInside ==
    ASSUME NEW p \in Packets, NEW b \in Nat, b > Len(Header),
           b + Len(Header) <= Prefix + Len(p) + 1,
           \A j \in 1 .. Len(Header) : FrameByte(p, (b + j) - 1) = Header[j]
    PROVE  HeaderIn(p)
<1> DEFINE body == LengthBytes(Len(p)) \o p
           l == Len(p)
           c == Len(Header)
           i == b - c - 1
<1>1. l \in Nat /\ c \in Nat /\ Prefix = c + 4
  BY PrefixFacts
<1>2. Len(body) = 4 + l /\ \A k \in 1 .. 4 + l : body[k] = FrameByte(p, c + k)
  BY BodyBytes
<1>3. b > c /\ b + c <= Prefix + l + 1 /\ \A j \in 1 .. c : FrameByte(p, (b + j) - 1) = Header[j]
  OBVIOUS
<1> HIDE DEF body, l, c
<1>4. i \in 0 .. Len(body) - c
  BY <1>1, <1>2, <1>3
<1>5. ASSUME NEW j \in 1 .. c PROVE body[i + j] = Header[j]
  <2>1. i + j \in 1 .. 4 + l /\ c + (i + j) = (b + j) - 1
    BY <1>1, <1>3, <1>5
  <2> QED
    BY <2>1, <1>2, <1>3, <1>5
<1> HIDE DEF i
<1>6. \E x \in 0 .. Len(body) - c : \A j \in 1 .. c : body[x + j] = Header[j]
  BY <1>4, <1>5
<1> QED
  BY <1>6 DEF HeaderIn, body, c

\* A header is where a frame starts.
LEMMA HeaderStarts ==
    ASSUME NEW frames \in Seq(Packets), NEW e \in Places(Len(frames)), NEW F \in Seq(Nat),
           NEW whole, Framed(e, frames, 0, F, whole), e[1] = 0, NoHeaders(frames),
           NEW p \in Nat, p + Len(Header) <= Len(F),
           \A j \in 1 .. Len(Header) : F[p + j] = Header[j]
    PROVE  \E i \in 1 .. Len(frames) : e[i] = p
<1> DEFINE n == Len(frames)
           c == Len(Header)
           q == p + 1
           I == {j \in 1 .. n + 1 : q <= e[j]}
           m == Min(I)
<1>1. /\ \A i \in 1 .. n + 1 : e[i] \in Nat
      /\ \A i \in 1 .. n :
            e[i] \in Nat /\ e[i + 1] \in Nat /\ e[i + 1] = e[i] + Prefix + Len(frames[i])
      /\ Len(F) <= e[n + 1]
      /\ \A i \in 1 .. n : \A b \in 1 .. Prefix + Len(frames[i]) :
            e[i] + b <= Len(F) => F[e[i] + b] = FrameByte(frames[i], b)
  BY FromTheStart
<1>p. Prefix \in Nat /\ c \in Nat /\ c > 1 /\ Prefix = c + 4
  BY PrefixFacts
<1>h. Header[1] = 0 /\ \A j \in 2 .. c : Header[j] # 0
  BY TcpAssumption
<1>s. \A j \in 1 .. c : F[p + j] = Header[j]
  OBVIOUS
<1>l. n \in Nat /\ Len(F) \in Nat /\ p + c <= Len(F)
  OBVIOUS
<1>n. \A i \in 1 .. n : ~HeaderIn(frames[i])
  BY DEF NoHeaders
<1>f. \A i \in 1 .. n : frames[i] \in Packets
  OBVIOUS
<1> HIDE DEF n, c
<1>2. n \in Nat /\ Len(F) \in Nat /\ q \in Nat /\ q >= 1 /\ q <= Len(F)
  BY <1>l, <1>p
<1>3. n + 1 \in I
  <2>1. n + 1 \in 1 .. n + 1 /\ e[n + 1] \in Nat
    BY <1>1, <1>2
  <2> HIDE DEF q
  <2> QED
    BY <2>1, <1>1, <1>2
<1>4. m \in I /\ \A j \in I : m <= j
  <2>1. I \subseteq Nat /\ I # {}
    BY <1>2, <1>3
  <2> HIDE DEF I
  <2> QED
    BY <2>1, LeastFacts
<1>5. m \in 1 .. n + 1 /\ q <= e[m] /\ m # 1
  <2>1. m \in 1 .. n + 1 /\ q <= e[m]
    BY <1>4
  <2> HIDE DEF m
  <2> QED
    BY <2>1, <1>2
<1>6. m \in Nat /\ m - 1 \in 1 .. n /\ m - 1 \in 1 .. n + 1 /\ (m - 1) + 1 = m /\ ~(m <= m - 1)
  <2> HIDE DEF m
  <2> QED
    BY <1>2, <1>5
<1>7. ~(q <= e[m - 1])
  BY <1>4, <1>6
<1> HIDE DEF m, I
<1> DEFINE i == m - 1
           b == q - e[i]
           l == Len(frames[i])
           L == Prefix + l
<1>8. i \in 1 .. n /\ e[i] \in Nat /\ e[i] < q /\ q <= e[i + 1] /\ e[i + 1] = e[i] + Prefix + l
  <2>1. i \in 1 .. n /\ i + 1 = m /\ ~(q <= e[i])
    BY <1>6, <1>7
  <2> HIDE DEF i, l
  <2>2. e[i] \in Nat /\ q <= e[i + 1] /\ e[i + 1] = e[i] + Prefix + Len(frames[i])
    BY <2>1, <1>1, <1>5
  <2>3. e[i] < q
    BY <2>1, <2>2, <1>2
  <2> QED
    BY <2>1, <2>2, <2>3 DEF l
<1>9. frames[i] \in Packets /\ l \in Nat /\ l > 0
  BY <1>8, <1>f, PrefixFacts
<1> HIDE DEF i, l
<1>10. b \in 1 .. L /\ e[i] + b = q /\ b \in Nat /\ L \in Nat /\ e[i + 1] = e[i] + L
  <2> DEFINE x == e[i]
             y == e[i + 1]
  <2>1. /\ x \in Nat /\ x < q /\ q <= y /\ y = x + Prefix + l /\ l \in Nat /\ Prefix \in Nat
        /\ q \in Nat
    BY <1>2, <1>8, <1>9, <1>p
  <2> HIDE DEF x, y
  <2>2. /\ q - x \in 1 .. Prefix + l /\ x + (q - x) = q /\ q - x \in Nat
        /\ Prefix + l \in Nat /\ y = x + (Prefix + l)
    BY <2>1
  <2> QED
    BY <2>2 DEF x, y
<1>11. \A k \in 1 .. L : e[i] + k <= Len(F) => F[e[i] + k] = FrameByte(frames[i], k)
  BY <1>1, <1>8 DEF l
<1> HIDE DEF b, L
\* The j-th byte of the header is in the frame at b + j - 1.
<1>12. ASSUME NEW j \in 1 .. c, (b + j) - 1 \in 1 .. L
       PROVE  FrameByte(frames[i], (b + j) - 1) = Header[j]
  <2> DEFINE x == e[i]
             k == (b + j) - 1
  <2>1. x \in Nat /\ x + b = p + 1 /\ b \in Nat /\ j \in Nat /\ j <= c /\ k \in 1 .. L
    BY <1>8, <1>10, <1>12, <1>p
  <2>2. \A y \in 1 .. L : x + y <= Len(F) => F[x + y] = FrameByte(frames[i], y)
    BY <1>11
  <2> HIDE DEF x
  <2>3. x + k = p + j /\ p + j <= Len(F)
    BY <2>1, <1>l, <1>p
  <2> HIDE DEF k
  <2>4. F[p + j] = FrameByte(frames[i], k)
    BY <2>1, <2>2, <2>3
  <2> QED
    BY <2>4, <1>s DEF k
<1>13. b = 1
  <2>1. ASSUME b > 1, b <= c PROVE FALSE
    <3>1. 1 \in 1 .. c /\ (b + 1) - 1 = b /\ b \in 2 .. c
      BY <2>1, <1>10, <1>p
    <3>2. FrameByte(frames[i], b) = 0
      BY <3>1, <1>10, <1>12, <1>h
    <3>3. FrameByte(frames[i], b) = Header[b]
      BY <2>1 DEF FrameByte, c
    <3> QED
      BY <3>1, <3>2, <3>3, <1>h
  <2>2. ASSUME b > c, b + c <= L + 1 PROVE FALSE
    <3>1. ASSUME NEW j \in 1 .. c PROVE FrameByte(frames[i], (b + j) - 1) = Header[j]
      <4>1. (b + j) - 1 \in 1 .. L
        BY <2>2, <3>1, <1>10, <1>p
      <4> QED
        BY <4>1, <1>12
    <3>2. b > Len(Header) /\ b + Len(Header) <= Prefix + Len(frames[i]) + 1
      BY <2>2 DEF c, L, l
    <3>3. HeaderIn(frames[i])
      BY <3>1, <3>2, <1>9, <1>10, HeaderInside DEF c
    <3> QED
      BY <3>3, <1>8, <1>n
  <2>3. ASSUME b > c, b + c > L + 1 PROVE FALSE
    <3> DEFINE j == (L + 2) - b
               x == e[i]
               y == e[i + 1]
    <3>1. x \in Nat /\ x + b = p + 1 /\ y = x + L /\ b \in 1 .. L /\ L \in Nat /\ b \in Nat
      BY <1>8, <1>10
    <3> HIDE DEF x, y
    <3>2. j \in 2 .. c /\ j \in 1 .. c /\ p + j = y + 1 /\ y + 1 <= Len(F) /\ y \in Nat
      BY <3>1, <2>3, <1>l, <1>p
    <3> HIDE DEF j
    <3>3. i + 1 \in 1 .. n
      <4>1. i \in 1 .. n /\ e[n + 1] \in Nat /\ Len(F) <= e[n + 1]
        BY <1>1, <1>2, <1>8
      <4>2. i # n
        <5> SUFFICES ASSUME i = n PROVE FALSE
          OBVIOUS
        <5>1. y = e[n + 1]
          BY DEF y
        <5> QED
          BY <5>1, <4>1, <3>2, <1>l
      <4> QED
        BY <4>1, <4>2, <1>2
    <3>4. 1 \in 1 .. Prefix + Len(frames[i + 1])
      <4> DEFINE z == Len(frames[i + 1])
      <4>1. z \in Nat
        BY <3>3, <1>f, PrefixFacts, Zenon
      <4> HIDE DEF z
      <4>2. 1 \in 1 .. Prefix + z
        BY <4>1, <1>p
      <4> QED
        BY <4>2 DEF z
    <3>5. F[y + 1] = FrameByte(frames[i + 1], 1)
      <4>1. \A k \in 1 .. Prefix + Len(frames[i + 1]) :
                e[i + 1] + k <= Len(F) => F[e[i + 1] + k] = FrameByte(frames[i + 1], k)
        BY <3>3, <1>1, Zenon
      <4>2. \A k \in 1 .. Prefix + Len(frames[i + 1]) :
                y + k <= Len(F) => F[y + k] = FrameByte(frames[i + 1], k)
        BY <4>1 DEF y
      <4> QED
        BY <4>2, <3>2, <3>4
    <3>6. FrameByte(frames[i + 1], 1) = 0
      <4>1. 1 <= Len(Header)
        BY <1>p DEF c
      <4> QED
        BY <4>1, <1>h DEF FrameByte
    <3>7. F[p + j] = Header[j]
      BY <3>2, <1>s
    <3> QED
      BY <3>2, <3>5, <3>6, <3>7, <1>h
  <2>4. b \in Nat /\ b >= 1 /\ c \in Nat /\ L \in Nat
    BY <1>10, <1>p
  <2> QED
    BY <2>1, <2>2, <2>3, <2>4
<1>14. e[i] = p
  <2> DEFINE x == e[i]
  <2>1. x \in Nat /\ x + 1 = p + 1
    BY <1>8, <1>10, <1>13
  <2> HIDE DEF x
  <2>2. x = p
    BY <2>1
  <2> QED
    BY <2>2 DEF x
<1> QED
  BY <1>8, <1>14 DEF n

\* The front of the bytes is the start of a frame.
LEMMA FramedFrom ==
    ASSUME NEW frames \in Seq(Packets), NEW e \in Places(Len(frames)), NEW F \in Seq(Nat),
           NEW whole, Framed(e, frames, 0, F, whole), e[1] = 0,
           NEW p \in Nat, NEW bytes \in Seq(Nat), Rest(F, p, bytes),
           NEW d \in 0 .. Len(frames), e[d + 1] = p
    PROVE  Framed(e, frames, d, bytes, whole)
<1> DEFINE n == Len(frames)
<1>1. /\ \A i \in 1 .. n + 1 : e[i] \in Nat
      /\ \A i \in 1 .. n : e[i + 1] = e[i] + Prefix + Len(frames[i])
      /\ \A i, j \in 1 .. n + 1 : i <= j => e[i] <= e[j]
      /\ Len(F) <= e[n + 1] /\ (whole => Len(F) = e[n + 1])
      /\ \A i \in 1 .. n : \A b \in 1 .. Prefix + Len(frames[i]) :
            e[i] + b <= Len(F) => F[e[i] + b] = FrameByte(frames[i], b)
  BY FromTheStart
<1>2. /\ Len(F) \in Nat /\ Len(bytes) \in Nat /\ Len(F) = p + Len(bytes)
      /\ \A j \in 1 .. Len(bytes) : bytes[j] = F[p + j]
  BY DEF Rest
<1>3. n \in Nat /\ d \in 0 .. n /\ Prefix \in Nat /\ \A i \in 1 .. n : Len(frames[i]) \in Nat
  BY PrefixFacts
<1> HIDE DEF n
<1>4. e[d + 1] + Len(bytes) <= e[n + 1] /\ (whole => e[d + 1] + Len(bytes) = e[n + 1])
  BY <1>1, <1>2
<1>5. ASSUME NEW i \in d + 1 .. n, NEW b \in 1 .. Prefix + Len(frames[i]),
             e[i] - e[d + 1] + b <= Len(bytes)
      PROVE  bytes[e[i] - e[d + 1] + b] = FrameByte(frames[i], b)
  <2>1. i \in 1 .. n /\ i \in 1 .. n + 1 /\ d + 1 \in 1 .. n + 1 /\ d + 1 <= i
    BY <1>3, <1>5
  <2>2. e[i] \in Nat /\ p <= e[i] /\ b \in Nat /\ b >= 1
    <3>1. e[i] \in Nat /\ p <= e[i]
      BY <2>1, <1>1
    <3>2. Prefix + Len(frames[i]) \in Nat
      BY <2>1, <1>3
    <3> QED
      BY <3>1, <3>2, <1>5
  <2> DEFINE x == e[i]
             j == x - p + b
             l == Len(bytes)
  <2>3. x \in Nat /\ p <= x /\ j <= l /\ l \in Nat /\ Len(F) = p + l
    BY <2>2, <1>2, <1>5
  <2> HIDE DEF x, l
  <2>4. j \in 1 .. l /\ p + j = x + b /\ x + b <= Len(F)
    BY <2>2, <2>3
  <2> HIDE DEF j
  <2>5. bytes[j] = F[x + b]
    BY <2>4, <1>2 DEF l
  <2>6. F[x + b] = FrameByte(frames[i], b)
    BY <2>1, <2>4, <1>1, <1>5 DEF x
  <2> QED
    BY <2>5, <2>6 DEF x, j
<1> QED
  BY <1>1, <1>4, <1>5 DEF Framed, n

\* What is behind the front of the rest.
LEMMA RestOfRest ==
    ASSUME NEW F \in Seq(Nat), NEW p \in Nat, NEW h \in Seq(Nat), NEW t \in Seq(Nat),
           Rest(F, p, h \o t)
    PROVE  p + Len(h) \in Nat /\ Rest(F, p + Len(h), t)
<1> DEFINE bytes == h \o t
           a == Len(h)
           b == Len(t)
<1>1. a \in Nat /\ b \in Nat
  OBVIOUS
<1>2. /\ Len(bytes) = a + b
      /\ \A i \in 1 .. a + b : bytes[i] = IF i <= a THEN h[i] ELSE t[i - a]
  BY Joining, Zenon
<1>3. Len(F) = p + Len(bytes) /\ \A j \in 1 .. Len(bytes) : bytes[j] = F[p + j]
  BY DEF Rest
<1> HIDE DEF bytes, a, b
<1>4. Len(F) = (p + a) + b /\ p + a \in Nat
  BY <1>1, <1>2, <1>3
<1>5. ASSUME NEW j \in 1 .. b PROVE t[j] = F[(p + a) + j]
  <2>1. /\ a + j \in 1 .. a + b /\ ~(a + j <= a) /\ (a + j) - a = j /\ p + (a + j) = (p + a) + j
        /\ a + j \in 1 .. Len(bytes)
    BY <1>1, <1>2, <1>5
  <2>2. bytes[a + j] = t[j] /\ bytes[a + j] = F[p + (a + j)]
    BY <2>1, <1>2, <1>3
  <2> QED
    BY <2>1, <2>2
<1> QED
  BY <1>4, <1>5 DEF Rest, a, b

\* Bytes behind all of F are behind its rest.
LEMMA RestOfMore ==
    ASSUME NEW F \in Seq(Nat), NEW p \in Nat, NEW bytes \in Seq(Nat), NEW X \in Seq(Nat),
           Rest(F, p, bytes)
    PROVE  F \o X \in Seq(Nat) /\ bytes \o X \in Seq(Nat) /\ Rest(F \o X, p, bytes \o X)
<1> DEFINE f == Len(F)
           b == Len(bytes)
           x == Len(X)
           G == F \o X
           Y == bytes \o X
<1>1. f \in Nat /\ b \in Nat /\ x \in Nat
  OBVIOUS
<1>2. /\ G \in Seq(Nat) /\ Y \in Seq(Nat) /\ Len(G) = f + x /\ Len(Y) = b + x
      /\ \A i \in 1 .. f + x : G[i] = IF i <= f THEN F[i] ELSE X[i - f]
      /\ \A i \in 1 .. b + x : Y[i] = IF i <= b THEN bytes[i] ELSE X[i - b]
  BY Joining, Zenon
<1>3. f = p + b /\ \A j \in 1 .. b : bytes[j] = F[p + j]
  BY DEF Rest
<1> HIDE DEF f, b, x, G, Y
<1>4. Len(G) = p + Len(Y)
  BY <1>1, <1>2, <1>3
<1>5. ASSUME NEW j \in 1 .. Len(Y) PROVE Y[j] = G[p + j]
  <2>1. j \in 1 .. b + x /\ j \in Nat /\ p + j \in 1 .. f + x
    BY <1>1, <1>2, <1>3, <1>5
  <2>2. CASE j <= b
    <3>1. p + j <= f /\ j \in 1 .. b
      BY <2>1, <2>2, <1>1, <1>3
    <3> QED
      BY <3>1, <2>1, <2>2, <1>2, <1>3
  <2>3. CASE ~(j <= b)
    <3>1. ~(p + j <= f) /\ (p + j) - f = j - b
      BY <2>1, <2>3, <1>1, <1>3
    <3> QED
      BY <3>1, <2>1, <2>3, <1>2
  <2> QED
    BY <2>2, <2>3
<1> QED
  BY <1>2, <1>4, <1>5 DEF Rest, G, Y

\* A connection at its start.
LEMMA ReadingNothing ==
    ASSUME NEW whole
    PROVE  Reading(<<>>, whole, <<>> \o <<>>, <<>>, FALSE)
<1>1. Len(<<>>) = 0 /\ <<>> \o <<>> = <<>> /\ <<>> \in Seq(Nat)
  BY EmptySeq, ConcatEmptySeq
<1> DEFINE none == <<>>
<1> HIDE DEF none
<1>2. Len(none) = 0 /\ none \o none = none /\ none \in Seq(Nat)
  BY <1>1 DEF none
<1> DEFINE e == [i \in 1 .. 1 |-> 0]
           g == [k \in 1 .. 0 |-> 1]
<1>3. e \in Places(0) /\ e[1] = 0 /\ g \in [1 .. 0 -> 1 .. 0]
  BY DEF Places
<1> HIDE DEF e, g
<1>4. Framed(e, none, 0, none, whole)
  BY <1>2, <1>3 DEF Framed
<1>5. Rest(none, 0, none)
  BY <1>2 DEF Rest
<1>6. Taken(g, e, 0, none, none)
  BY <1>2, <1>3 DEF Taken
<1>7. Reading(none, whole, none, none, FALSE)
  <2>1. \E x : Taken(x, e, 0, none, none)
    BY <1>6
  <2>2. e \in Places(Len(none)) /\ 0 \in Nat /\ none \in Seq(Nat)
    BY <1>2, <1>3
  <2> QED
    BY <2>1, <2>2, <1>3, <1>4, <1>5, Zenon DEF Reading
<1> QED
  BY <1>2, <1>7 DEF none

\* Nothing is said of where the reader is, unless it has found a header.
LEMMA ReadingStill ==
    ASSUME NEW frames, NEW whole, NEW bytes, NEW got, NEW found, NEW more,
           Reading(frames, whole, bytes, got, found), more => found
    PROVE  Reading(frames, whole, bytes, got, more)
BY DEF Reading

\* A frame is sent behind the others.
LEMMA ReadingMore ==
    ASSUME NEW frames \in Seq(Packets), NEW bytes \in Seq(Nat), NEW got \in Seq(Seq(Nat)),
           NEW found, Reading(frames, TRUE, bytes, got, found),
           NEW q \in Packets, NEW X \in Seq(Nat), Len(X) <= Prefix + Len(q),
           \A b \in 1 .. Len(X) : X[b] = FrameByte(q, b),
           NEW whole, whole \in BOOLEAN, whole => Len(X) = Prefix + Len(q)
    PROVE  Reading(Append(frames, q), whole, bytes \o X, got, found)
<1> DEFINE n == Len(frames)
           A == Append(frames, q)
<1>1. PICK e \in Places(n), F \in Seq(Nat), p \in Nat :
          /\ e[1] = 0 /\ Framed(e, frames, 0, F, TRUE) /\ Rest(F, p, bytes)
          /\ \E g : Taken(g, e, p, frames, got)
          /\ found => AtStart(e, p, n)
  BY DEF Reading
<1>2. PICK g : Taken(g, e, p, frames, got)
  BY <1>1
<1>3. n \in Nat /\ 0 \in 0 .. n
  OBVIOUS
<1>4. \E f \in Places(Len(frames) + 1) : FramedBehind(f, e, Append(frames, q), 0, F \o X, whole)
  <2>1. /\ 0 \in 0 .. Len(frames) /\ F \in Seq(Nat) /\ e \in Places(Len(frames))
        /\ Framed(e, frames, 0, F, TRUE)
    BY <1>1, <1>3
  <2> QED
    BY <2>1, FramedOneMore
<1>5. PICK f \in Places(n + 1) : Framed(f, A, 0, F \o X, whole) /\ \A i \in 1 .. n + 1 : f[i] = e[i]
  BY <1>4, SentOne DEF FramedBehind
<1>6. F \o X \in Seq(Nat) /\ Rest(F \o X, p, bytes \o X)
  BY <1>1, RestOfMore
<1>7. Len(A) = n + 1 /\ \A i \in 1 .. n : A[i] = frames[i]
  BY SentOne
<1> DEFINE c == Len(got)
<1>8. c \in Nat
  OBVIOUS
<1>9. /\ g \in [1 .. c -> 1 .. n]
      /\ \A k \in 1 .. c : /\ got[k] = frames[g[k]] /\ e[g[k] + 1] <= p
                           /\ k > 1 => g[k - 1] < g[k]
  BY <1>2 DEF Taken
<1> HIDE DEF n, A, c
<1>10. \A k \in 1 .. c : g[k] \in 1 .. n /\ g[k] \in 1 .. n + 1 /\ g[k] + 1 \in 1 .. n + 1
  <2>1. \A k \in 1 .. c : g[k] \in 1 .. n
    BY <1>9
  <2> QED
    BY <2>1, <1>3
<1>11. g \in [1 .. c -> 1 .. n + 1]
  BY <1>9, <1>10
<1>12. \A k \in 1 .. c : /\ got[k] = A[g[k]] /\ f[g[k] + 1] <= p
                         /\ k > 1 => g[k - 1] < g[k]
  BY <1>5, <1>7, <1>9, <1>10
<1>13. Taken(g, f, p, A, got)
  BY <1>7, <1>11, <1>12 DEF Taken, c
<1>14. found => AtStart(f, p, Len(A))
  <2> SUFFICES ASSUME found PROVE AtStart(f, p, Len(A))
    OBVIOUS
  <2>1. PICK i \in 1 .. n + 1 : e[i] = p
    BY <1>1 DEF AtStart, n
  <2>2. i \in 1 .. (n + 1) + 1 /\ f[i] = p
    BY <2>1, <1>3, <1>5
  <2> QED
    BY <2>2, <1>7 DEF AtStart
<1>15. f[1] = 0
  <2>1. 1 \in 1 .. n + 1
    BY <1>3
  <2> QED
    BY <2>1, <1>1, <1>5
<1>16. f \in Places(Len(A))
  BY <1>5, <1>7
<1>17. Framed(f, A, 0, F \o X, whole)
  BY <1>5
<1> DEFINE FX == F \o X
           BX == bytes \o X
<1>18. FX \in Seq(Nat) /\ Rest(FX, p, BX) /\ Framed(f, A, 0, FX, whole)
  BY <1>6, <1>17
<1> HIDE DEF FX, BX
<1>19. Reading(A, whole, BX, got, found)
  BY <1>1, <1>13, <1>14, <1>15, <1>16, <1>18 DEF Reading
<1> QED
  BY <1>19 DEF A, BX

\* What is at the front is thrown away.
LEMMA ReadingDropped ==
    ASSUME NEW frames, NEW whole, NEW got, NEW found,
           NEW h \in Seq(Nat), NEW t \in Seq(Nat), Reading(frames, whole, h \o t, got, found),
           \A e \in Places(Len(frames)), i \in 1 .. Len(frames) + 1 : e[i] \in Nat,
           Len(frames) \in Nat, Len(got) \in Nat
    PROVE  Reading(frames, whole, t, got, FALSE)
<1> DEFINE n == Len(frames)
<1>1. PICK e \in Places(n), F \in Seq(Nat), p \in Nat :
          /\ e[1] = 0 /\ Framed(e, frames, 0, F, whole) /\ Rest(F, p, h \o t)
          /\ \E g : Taken(g, e, p, frames, got)
  BY DEF Reading
<1>2. PICK g : Taken(g, e, p, frames, got)
  BY <1>1
<1>3. p + Len(h) \in Nat /\ Rest(F, p + Len(h), t)
  BY <1>1, RestOfRest
<1>4. Taken(g, e, p + Len(h), frames, got)
  <2>1. /\ g \in [1 .. Len(got) -> 1 .. n]
        /\ \A k \in 1 .. Len(got) : /\ got[k] = frames[g[k]] /\ e[g[k] + 1] <= p
                                    /\ k > 1 => g[k - 1] < g[k]
    BY <1>2 DEF Taken
  <2>2. ASSUME NEW k \in 1 .. Len(got) PROVE e[g[k] + 1] <= p + Len(h)
    <3>1. g[k] \in 1 .. n
      BY <2>1, <2>2
    <3>2. g[k] + 1 \in 1 .. n + 1
      BY <3>1
    <3>3. e[g[k] + 1] \in Nat /\ e[g[k] + 1] <= p /\ Len(h) \in Nat
      BY <3>2, <2>1, <2>2
    <3> QED
      BY <3>3
  <2> QED
    BY <2>1, <2>2 DEF Taken
<1> DEFINE r == p + Len(h)
<1> HIDE DEF r
<1>5. r \in Nat /\ Rest(F, r, t) /\ Taken(g, e, r, frames, got)
  BY <1>3, <1>4 DEF r
<1> QED
  BY <1>1, <1>5 DEF Reading

\* A header in front, and the reader is where a frame starts.
LEMMA ReadingFound ==
    ASSUME NEW frames \in Seq(Packets), NEW whole, NEW bytes \in Seq(Nat), NEW got, NEW found,
           Reading(frames, whole, bytes, got, found), NoHeaders(frames),
           Len(bytes) >= Len(Header), \A j \in 1 .. Len(Header) : bytes[j] = Header[j]
    PROVE  Reading(frames, whole, bytes, got, TRUE)
<1> DEFINE n == Len(frames)
<1>1. PICK e \in Places(n), F \in Seq(Nat), p \in Nat :
          /\ e[1] = 0 /\ Framed(e, frames, 0, F, whole) /\ Rest(F, p, bytes)
          /\ \E g : Taken(g, e, p, frames, got)
  BY DEF Reading
<1>2. p + Len(Header) <= Len(F) /\ \A j \in 1 .. Len(Header) : F[p + j] = Header[j]
  <2> DEFINE c == Len(Header)
             k == Len(bytes)
  <2>1. /\ c \in Nat /\ k \in Nat /\ c <= k /\ \A j \in 1 .. c : bytes[j] = Header[j]
    BY PrefixFacts
  <2>2. Len(F) = p + k /\ \A j \in 1 .. k : bytes[j] = F[p + j]
    BY <1>1 DEF Rest
  <2> HIDE DEF c, k
  <2>3. \A j \in 1 .. c : j \in 1 .. k
    BY <2>1
  <2>4. \A j \in 1 .. c : F[p + j] = Header[j]
    BY <2>1, <2>2, <2>3
  <2>5. p + c <= Len(F)
    BY <2>1, <2>2
  <2> QED
    BY <2>4, <2>5 DEF c
<1>3. PICK i \in 1 .. n : e[i] = p
  BY <1>1, <1>2, HeaderStarts
<1>4. i \in 1 .. n + 1
  OBVIOUS
<1>5. AtStart(e, p, n)
  BY <1>3, <1>4 DEF AtStart
<1> QED
  BY <1>1, <1>5 DEF Reading

\* A reader where a frame starts, that has as many bytes as the frame names, has
\* the frame.
LEMMA WholeFrame ==
    ASSUME NEW frames \in Seq(Packets), NEW e \in Places(Len(frames)), NEW whole,
           NEW d \in 0 .. Len(frames), NEW h \in Seq(Nat), NEW t \in Seq(Nat),
           Framed(e, frames, d, h \o t, whole),
           Len(h) >= Prefix, Len(h) = LengthIn(h) + Prefix
    PROVE  /\ d + 1 \in 1 .. Len(frames) /\ Len(h) = Prefix + Len(frames[d + 1])
           /\ SubSeq(h, Prefix + 1, Len(h)) = frames[d + 1]
<1> DEFINE bytes == h \o t
           a == Len(h)
<1>1. /\ bytes \in Seq(Nat) /\ Len(bytes) = a + Len(t)
      /\ \A i \in 1 .. a + Len(t) : bytes[i] = IF i <= a THEN h[i] ELSE t[i - a]
  BY Joining, Zenon
<1>2. a \in Nat /\ Len(t) \in Nat /\ Prefix \in Nat /\ Prefix >= 1 /\ a >= Prefix
  <2>1. Prefix \in Nat /\ Prefix >= 1
    <3> HIDE DEF a
    <3>1. Prefix \in Nat /\ Len(Header) \in Nat /\ Prefix = Len(Header) + 4
      BY PrefixFacts
    <3> QED
      BY ONLY <3>1
  <2> QED
    BY <2>1
<1>3. Framed(e, frames, d, bytes, whole)
  OBVIOUS
<1> HIDE DEF bytes
<1>4. Len(bytes) >= Prefix
  BY <1>1, <1>2
<1>5. /\ d + 1 \in 1 .. Len(frames) /\ frames[d + 1] \in Packets
      /\ \A b \in 1 .. Prefix + Len(frames[d + 1]) :
            b <= Len(bytes) => bytes[b] = FrameByte(frames[d + 1], b)
      /\ LengthIn(bytes) = Len(frames[d + 1])
  BY <1>1, <1>3, <1>4, FirstFrame
<1>6. \A i \in 1 .. a : bytes[i] = h[i] /\ i <= Len(bytes)
  <2> DEFINE l == Len(t)
  <2> HIDE DEF a, l
  <2>1. \A i \in 1 .. a : i \in 1 .. a + l /\ i <= a /\ i <= a + l
    BY <1>2 DEF l
  <2> QED
    BY <2>1, <1>1 DEF l
<1>7. a = Prefix + Len(frames[d + 1])
  <2>1. LengthIn(h) = LengthIn(bytes)
    <3>1. \A i \in 1 .. Len(h) : bytes[i] = h[i]
      BY <1>6
    <3> QED
      BY <3>1, <1>1, LengthOfFront
  <2>2. LengthIn(h) = Len(frames[d + 1]) /\ Len(frames[d + 1]) \in Nat
    BY <2>1, <1>5, PrefixFacts
  <2>3. a = LengthIn(h) + Prefix
    OBVIOUS
  <2> HIDE DEF a
  <2> QED
    BY <2>2, <2>3, <1>2
<1>8. \A b \in 1 .. Prefix + Len(frames[d + 1]) : h[b] = FrameByte(frames[d + 1], b)
  <2> SUFFICES ASSUME NEW b \in 1 .. a PROVE h[b] = FrameByte(frames[d + 1], b)
    BY <1>7
  <2> QED
    BY <1>5, <1>6, <1>7
<1>9. SubSeq(h, Prefix + 1, Len(h)) = frames[d + 1]
  BY <1>5, <1>7, <1>8, PacketInFrame
<1> QED
  BY <1>5, <1>7, <1>9

\* One more of the frames was delivered.
LEMMA TakenOneMore ==
    ASSUME NEW frames \in Seq(Packets), NEW e, NEW p \in Nat, NEW r \in Nat,
           NEW got \in Seq(Seq(Nat)), NEW g, Taken(g, e, p, frames, got),
           \A i \in 1 .. Len(frames) + 1 : e[i] \in Nat,
           \A i, j \in 1 .. Len(frames) + 1 : i <= j => e[i] <= e[j],
           NEW i \in 1 .. Len(frames), e[i] = p, e[i + 1] = r, p < r,
           NEW one \in Seq(Nat), one = frames[i]
    PROVE  \E x : Taken(x, e, r, frames, Append(got, one))
<1> DEFINE n == Len(frames)
           c == Len(got)
           A == Append(got, one)
           x == [k \in 1 .. c + 1 |-> IF k <= c THEN g[k] ELSE i]
<1>1. /\ n \in Nat /\ c \in Nat /\ i \in 1 .. n /\ i \in 1 .. n + 1
      /\ \A k \in 1 .. n : k \in 1 .. n + 1 /\ k + 1 \in 1 .. n + 1
  OBVIOUS
<1>2. Len(A) = c + 1 /\ A[c + 1] = one /\ \A k \in 1 .. c : A[k] = got[k]
  OBVIOUS
<1>3. /\ g \in [1 .. c -> 1 .. n]
      /\ \A k \in 1 .. c : /\ got[k] = frames[g[k]] /\ e[g[k] + 1] <= p
                           /\ k > 1 => g[k - 1] < g[k]
  BY DEF Taken
<1>4. \A k \in 1 .. n + 1 : e[k] \in Nat
  OBVIOUS
<1>5. \A k, j \in 1 .. n + 1 : k <= j => e[k] <= e[j]
  OBVIOUS
<1>6. e[i] = p /\ e[i + 1] = r /\ p < r /\ one = frames[i] /\ i + 1 \in 1 .. n + 1
  BY <1>1
<1> HIDE DEF n, c, A
<1>7. ASSUME NEW k \in 1 .. c PROVE g[k] \in 1 .. n /\ g[k] < i
  <2>1. g[k] \in 1 .. n /\ g[k] + 1 \in 1 .. n + 1 /\ e[g[k] + 1] <= p /\ e[g[k] + 1] \in Nat
    BY <1>1, <1>3, <1>4, <1>7
  <2>2. ~(i + 1 <= g[k] + 1)
    <3> SUFFICES ASSUME i + 1 <= g[k] + 1 PROVE FALSE
      OBVIOUS
    <3>1. e[i + 1] <= e[g[k] + 1]
      BY <2>1, <1>5, <1>6
    <3> QED
      BY <3>1, <2>1, <1>6
  <2> QED
    BY <2>1, <2>2, <1>1
<1>8. x \in [1 .. c + 1 -> 1 .. n] /\ x[c + 1] = i /\ \A k \in 1 .. c : x[k] = g[k]
  <2>1. c + 1 \in 1 .. c + 1 /\ ~(c + 1 <= c) /\ \A k \in 1 .. c : k \in 1 .. c + 1 /\ k <= c
    BY <1>1
  <2>2. \A k \in 1 .. c + 1 : k <= c => k \in 1 .. c
    BY <1>1
  <2> QED
    BY <2>1, <2>2, <1>1, <1>7
<1> HIDE DEF x
<1>9. ASSUME NEW k \in 1 .. c + 1
      PROVE  /\ A[k] = frames[x[k]] /\ e[x[k] + 1] <= r
             /\ k > 1 => x[k - 1] < x[k]
  <2>1. CASE k \in 1 .. c
    <3>1. A[k] = frames[x[k]] /\ x[k] = g[k]
      BY <2>1, <1>2, <1>3, <1>8
    <3>2. e[g[k] + 1] \in Nat /\ e[g[k] + 1] <= p
      BY <2>1, <1>1, <1>3, <1>4, <1>7
    <3>3. e[x[k] + 1] <= r
      BY <3>1, <3>2, <1>6
    <3>4. k > 1 => k - 1 \in 1 .. c
      BY <2>1, <1>1
    <3> QED
      BY <3>1, <3>3, <3>4, <2>1, <1>3, <1>8
  <2>2. CASE k = c + 1
    <3>1. A[k] = frames[x[k]] /\ x[k] = i /\ e[x[k] + 1] <= r
      BY <2>2, <1>2, <1>6, <1>8
    <3>2. k > 1 => k - 1 \in 1 .. c
      BY <2>2, <1>1
    <3> QED
      BY <3>1, <3>2, <1>7, <1>8
  <2> QED
    BY <2>1, <2>2, <1>1, <1>9
<1>10. Taken(x, e, r, frames, A)
  BY <1>2, <1>8, <1>9 DEF Taken, n
<1> QED
  BY <1>10 DEF A

\* A frame is delivered.
LEMMA ReadingDelivered ==
    ASSUME NEW frames \in Seq(Packets), NEW whole, NEW got \in Seq(Seq(Nat)),
           NEW h \in Seq(Nat), NEW t \in Seq(Nat), Reading(frames, whole, h \o t, got, TRUE),
           Len(h) >= Prefix, Len(h) = LengthIn(h) + Prefix
    PROVE  Reading(frames, whole, t, Append(got, SubSeq(h, Prefix + 1, Len(h))), TRUE)
<1> DEFINE n == Len(frames)
           one == SubSeq(h, Prefix + 1, Len(h))
           bytes == h \o t
<1>1. PICK e \in Places(n), F \in Seq(Nat), p \in Nat :
          /\ e[1] = 0 /\ Framed(e, frames, 0, F, whole) /\ Rest(F, p, bytes)
          /\ \E g : Taken(g, e, p, frames, got)
          /\ AtStart(e, p, n)
  BY DEF Reading
<1>2. PICK g : Taken(g, e, p, frames, got)
  BY <1>1
<1>3. PICK i \in 1 .. n + 1 : e[i] = p
  BY <1>1 DEF AtStart
<1>4. bytes \in Seq(Nat)
  BY <1>1 DEF Rest
<1>5. n \in Nat /\ i - 1 \in 0 .. n /\ (i - 1) + 1 = i /\ i \in Nat
  BY <1>3
<1>6. Framed(e, frames, i - 1, bytes, whole)
  BY <1>1, <1>3, <1>4, <1>5, FramedFrom
<1>7. /\ i \in 1 .. n /\ Len(h) = Prefix + Len(frames[i]) /\ one = frames[i]
  <2> DEFINE d == i - 1
  <2>1. d \in 0 .. n /\ d + 1 = i
    BY <1>5
  <2> HIDE DEF d
  <2>2. Framed(e, frames, d, h \o t, whole)
    BY <1>6 DEF d
  <2>3. /\ d + 1 \in 1 .. n /\ Len(h) = Prefix + Len(frames[d + 1]) /\ one = frames[d + 1]
    BY <1>1, <2>1, <2>2, WholeFrame
  <2> QED
    BY <2>1, <2>3
<1> DEFINE r == p + Len(h)
<1>8. r \in Nat /\ Rest(F, r, t)
  BY <1>1, RestOfRest
<1>9. /\ \A k \in 1 .. n + 1 : e[k] \in Nat
      /\ \A k \in 1 .. n : e[k + 1] = e[k] + Prefix + Len(frames[k])
      /\ \A k, j \in 1 .. n + 1 : k <= j => e[k] <= e[j]
  BY <1>1, FromTheStart
<1>10. frames[i] \in Packets /\ Len(frames[i]) \in Nat /\ Prefix \in Nat /\ Prefix > 0
  <2>1. frames[i] \in Packets
    BY <1>7
  <2>2. Len(frames[i]) \in Nat
    BY <2>1, PrefixFacts
  <2>3. Prefix \in Nat /\ Len(Header) \in Nat /\ Prefix = Len(Header) + 4
    BY PrefixFacts
  <2>4. Prefix > 0
    BY ONLY <2>3
  <2> QED
    BY <2>1, <2>2, <2>3, <2>4
<1>11. e[i + 1] = r /\ p < r
  <2>1. e[i + 1] = p + Prefix + Len(frames[i]) /\ r = p + (Prefix + Len(frames[i]))
    BY <1>3, <1>7, <1>9
  <2> DEFINE l == Len(frames[i])
             y == e[i + 1]
  <2>2. l \in Nat /\ y = p + Prefix + l /\ r = p + (Prefix + l) /\ Prefix \in Nat /\ Prefix > 0
    BY <2>1, <1>10
  <2> HIDE DEF r, l, y
  <2>3. y = r /\ p < r
    BY <2>2
  <2> QED
    BY <2>3 DEF y
<1>12. one \in Seq(Nat)
  BY <1>7, <1>10, PrefixFacts
<1> HIDE DEF one, r
<1>13. \E x : Taken(x, e, r, frames, Append(got, one))
  BY <1>1, <1>2, <1>3, <1>7, <1>8, <1>9, <1>11, <1>12, TakenOneMore
<1>14. AtStart(e, r, n)
  <2>1. i + 1 \in 1 .. n + 1
    BY <1>5, <1>7
  <2> QED
    BY <2>1, <1>11 DEF AtStart
<1> DEFINE more == Append(got, one)
<1> HIDE DEF more
<1>15. \E x : Taken(x, e, r, frames, more)
  BY <1>13 DEF more
<1>16. Reading(frames, whole, t, more, TRUE)
  BY <1>1, <1>8, <1>14, <1>15 DEF Reading
<1> QED
  BY <1>16 DEF more, one

\* WholeInv holds before anything is sent.
LEMMA WholeInitial == TcpInit => WholeInv
<1> SUFFICES ASSUME TcpInit
             PROVE  Reading(sent, open, mBuffer \o stream, delivered, Found)
  BY DEF WholeInv
<1>1. sent = <<>> /\ delivered = <<>> /\ mBuffer = <<>> /\ stream = <<>> /\ ~Found
  BY DEF TcpInit, Found
<1>2. Reading(sent, open, mBuffer \o stream, delivered, FALSE)
  BY <1>1, ReadingNothing, Zenon
<1> QED
  BY <1>1, <1>2, ReadingStill, Zenon

\* The steps after which the same bytes are unused.
LEMMA WholeKept ==
    ASSUME WholeInv, UNCHANGED <<sent, delivered, open>>, ~torn' => ~torn,
           mBuffer' \o stream' = mBuffer \o stream, Found' => Found
    PROVE  WholeInv'
<1> SUFFICES ASSUME ~torn', NoHeaders(sent')
             PROVE  Reading(sent', open', mBuffer' \o stream', delivered', Found')
  BY DEF WholeInv
<1>1. Reading(sent, open, mBuffer \o stream, delivered, Found)
  BY DEF WholeInv
<1>2. /\ sent' = sent /\ delivered' = delivered /\ open' = open
      /\ mBuffer' \o stream' = mBuffer \o stream
  OBVIOUS
<1>3. Reading(sent', open', mBuffer' \o stream', delivered', Found)
  BY <1>1, <1>2, Zenon
<1>4. Found' => Found
  OBVIOUS
<1> QED
  BY <1>3, <1>4, ReadingStill, Zenon

\* The steps that throw h away.
LEMMA WholeSlip ==
    ASSUME ReadInv, WholeInv, UNCHANGED <<sender, delivered>>,
           NEW h \in Seq(Nat), h \o stream' = mBuffer \o stream, stream' \in Seq(Nat),
           mBuffer' = <<>>, mState' = "SYNC"
    PROVE  WholeInv'
<1> SUFFICES ASSUME ~torn', NoHeaders(sent')
             PROVE  Reading(sent', open', mBuffer' \o stream', delivered', Found')
  BY DEF WholeInv
<1>1. /\ sent' = sent /\ delivered' = delivered /\ open' = open /\ torn' = torn /\ ~Found'
      /\ h \o stream' = mBuffer \o stream /\ h \in Seq(Nat) /\ stream' \in Seq(Nat)
  BY DEF sender, Found
<1>2. Reading(sent, open, mBuffer \o stream, delivered, Found)
  BY <1>1 DEF WholeInv
<1>3. Reading(sent, open, h \o stream', delivered, Found)
  BY <1>1, <1>2, Zenon
<1>4. sent \in Seq(Packets) /\ delivered \in Seq(Seq(Nat))
  BY DEF ReadInv
<1>5. Len(sent) \in Nat /\ Len(delivered) \in Nat
  BY <1>4
<1>6. \A e \in Places(Len(sent)), i \in 1 .. Len(sent) + 1 : e[i] \in Nat
  BY DEF Places
<1>7. Reading(sent, open, stream', delivered, FALSE)
  BY <1>1, <1>3, <1>5, <1>6, ReadingDropped, Zenon
<1>8. mBuffer' \o stream' = stream'
  BY <1>1, ConcatEmptySeq
<1>9. Reading(sent', open', mBuffer' \o stream', delivered', FALSE)
  BY <1>1, <1>7, <1>8, Zenon
<1> QED
  BY <1>1, <1>9, ReadingStill, Zenon

\* A frame behind the others, of which X was sent.
LEMMA WholeSent ==
    ASSUME ReadInv, WholeInv, UNCHANGED receiver, ~torn' => ~torn, open,
           NEW p \in Packets, NEW X \in Seq(Nat), Len(X) <= Prefix + Len(p),
           \A b \in 1 .. Len(X) : X[b] = FrameByte(p, b),
           stream' = stream \o X, sent' = Append(sent, p),
           open' \in BOOLEAN, open' => Len(X) = Prefix + Len(p)
    PROVE  WholeInv'
<1> SUFFICES ASSUME ~torn', NoHeaders(sent')
             PROVE  Reading(sent', open', mBuffer' \o stream', delivered', Found')
  BY DEF WholeInv
<1>1. /\ mBuffer \in Seq(Nat) /\ stream \in Seq(Nat) /\ sent \in Seq(Packets)
      /\ delivered \in Seq(Seq(Nat)) /\ open = TRUE /\ ~torn
  BY DEF ReadInv
<1>2. /\ mBuffer' = mBuffer /\ delivered' = delivered /\ Found' = Found
  BY DEF receiver, Found
<1>3. NoHeaders(sent)
  <2>1. /\ Len(sent') = Len(sent) + 1 /\ DOMAIN sent = 1 .. Len(sent) /\ Len(sent) \in Nat
        /\ DOMAIN sent' = 1 .. Len(sent) + 1 /\ \A i \in 1 .. Len(sent) : sent'[i] = sent[i]
    <3>1. Append(sent, p) \in Seq(Packets)
      BY <1>1, SentOne
    <3> QED
      BY <3>1, <1>1, SentOne
  <2>2. \A i \in DOMAIN sent : i \in DOMAIN sent' /\ sent'[i] = sent[i]
    BY <2>1
  <2> QED
    BY <2>2 DEF NoHeaders
<1>4. Reading(sent, TRUE, mBuffer \o stream, delivered, Found)
  BY <1>1, <1>3 DEF WholeInv
<1>5. mBuffer \o stream \in Seq(Nat) /\ mBuffer' \o stream' = (mBuffer \o stream) \o X
  <2>1. mBuffer' \o stream' = mBuffer \o (stream \o X)
    BY <1>2, Zenon
  <2>2. (mBuffer \o stream) \o X = mBuffer \o (stream \o X)
    BY <1>1, JoiningThree, Zenon
  <2>3. mBuffer \o stream \in Seq(Nat)
    BY <1>1, Joining, Zenon
  <2> QED
    BY <2>1, <2>2, <2>3, Zenon
<1> DEFINE bytes == mBuffer \o stream
<1>6. bytes \in Seq(Nat) /\ Reading(sent, TRUE, bytes, delivered, Found)
  BY <1>4, <1>5
<1> HIDE DEF bytes
<1>7. Reading(Append(sent, p), open', bytes \o X, delivered, Found)
  BY <1>1, <1>6, ReadingMore
<1> QED
  BY <1>2, <1>5, <1>7, Zenon DEF bytes

\* All of the header is in the buffer.
LEMMA WholeFound ==
    ASSUME ReadInv, WholeInv, UNCHANGED <<sender, delivered>>,
           stream' \in Seq(Nat), mBuffer' \o stream' = mBuffer \o stream, mBuffer' = Header
    PROVE  WholeInv'
<1> SUFFICES ASSUME ~torn', NoHeaders(sent')
             PROVE  Reading(sent', open', mBuffer' \o stream', delivered', Found')
  BY DEF WholeInv
<1>1. /\ sent' = sent /\ delivered' = delivered /\ open' = open /\ torn' = torn
      /\ sent \in Seq(Packets) /\ mBuffer' \o stream' = mBuffer \o stream
  BY DEF sender, ReadInv
<1>2. Reading(sent, open, mBuffer \o stream, delivered, Found)
  BY <1>1 DEF WholeInv
<1> DEFINE bytes == Header \o stream'
<1>3. /\ bytes \in Seq(Nat) /\ Len(bytes) >= Len(Header)
      /\ \A j \in 1 .. Len(Header) : bytes[j] = Header[j]
  <2> DEFINE c == Len(Header)
             t == stream'
  <2>1. Header \in Seq(Nat) /\ c \in Nat /\ t \in Seq(Nat) /\ Len(t) \in Nat
    BY PrefixFacts
  <2>2. /\ bytes \in Seq(Nat) /\ Len(bytes) = c + Len(t)
        /\ \A i \in 1 .. c + Len(t) : bytes[i] = IF i <= c THEN Header[i] ELSE t[i - c]
    BY <2>1, Joining, Zenon
  <2> HIDE DEF bytes, c, t
  <2>3. Len(bytes) >= c /\ \A j \in 1 .. c : j \in 1 .. c + Len(t) /\ j <= c
    BY <2>1, <2>2
  <2>4. \A j \in 1 .. c : bytes[j] = Header[j]
    BY <2>2, <2>3
  <2> QED
    BY <2>2, <2>3, <2>4 DEF c
<1>b. mBuffer' \o stream' = bytes
  OBVIOUS
<1>4. Reading(sent, open, bytes, delivered, Found)
  BY <1>1, <1>2, <1>b, Zenon
<1> HIDE DEF bytes
<1>5. Reading(sent, open, bytes, delivered, TRUE)
  BY <1>1, <1>3, <1>4, ReadingFound
<1> QED
  BY <1>1, <1>5, <1>b, ReadingStill, Zenon DEF bytes

\* The delivery of bytes, in parts of any size, keeps WholeInv.
LEMMA WholeDelivered == ReadInv /\ WholeInv /\ Deliver => WholeInv'
<1> SUFFICES ASSUME ReadInv, WholeInv, Deliver, ~torn', NoHeaders(sent')
             PROVE  Reading(sent', open', mBuffer' \o stream', delivered', Found')
  BY DEF WholeInv
<1>1. /\ torn' = torn /\ sent' = sent /\ open' = open /\ stream' = stream
      /\ mBuffer' = <<>> /\ Len(mBuffer) = LengthIn(mBuffer) + Prefix
      /\ delivered' = Append(delivered, SubSeq(mBuffer, Prefix + 1, Len(mBuffer)))
      /\ mState = "DATA"
  BY DEF Deliver, sender, BucketSize
<1>2. /\ mBuffer \in Seq(Nat) /\ stream \in Seq(Nat) /\ sent \in Seq(Packets)
      /\ delivered \in Seq(Seq(Nat)) /\ Len(mBuffer) >= Prefix
  BY <1>1 DEF ReadInv
<1>3. Reading(sent, open, mBuffer \o stream, delivered, Found)
  BY <1>1 DEF WholeInv
<1>4. Found
  BY <1>1 DEF Found
<1>5. Reading(sent, open, mBuffer \o stream, delivered, TRUE)
  BY <1>3, <1>4, ReadingStill, Zenon
<1>6. Reading(sent, open, stream, Append(delivered, SubSeq(mBuffer, Prefix + 1, Len(mBuffer))), TRUE)
  <2>1. Len(mBuffer) = LengthIn(mBuffer) + Prefix
    BY <1>1
  <2> QED
    BY <1>2, <1>5, <2>1, ReadingDelivered, Zenon
<1>7. mBuffer' \o stream' = stream
  BY <1>1, <1>2, ConcatEmptySeq
<1>8. Reading(sent', open', mBuffer' \o stream', delivered', TRUE)
  BY <1>1, <1>6, <1>7, Zenon
<1> QED
  BY <1>8, ReadingStill, Zenon

\* Every step keeps WholeInv.
LEMMA WholeStep == ReadInv /\ WholeInv /\ [TcpNext]_tcpVars => WholeInv'
<1> SUFFICES ASSUME ReadInv, WholeInv, [TcpNext]_tcpVars PROVE WholeInv'
  OBVIOUS
<1>0. /\ mBuffer \in Seq(Nat) /\ stream \in Seq(Nat) /\ Len(stream) \in Nat /\ Len(mBuffer) \in Nat
      /\ stream' \in Seq(Nat) /\ mBuffer' \in Seq(Nat)
  <2>1. ReadInv'
    BY ReadStep
  <2>2. mBuffer \in Seq(Nat) /\ stream \in Seq(Nat)
    BY DEF ReadInv
  <2> QED
    BY <2>1, <2>2 DEF ReadInv
<1>1. CASE Dial
  <2> SUFFICES Reading(sent', open', mBuffer' \o stream', delivered', Found')
    BY DEF WholeInv
  <2>1. sent' = <<>> /\ delivered' = <<>> /\ mBuffer' = <<>> /\ stream' = <<>> /\ mState' = "SYNC"
    BY <1>1 DEF Dial
  <2>2. Reading(sent', open', mBuffer' \o stream', delivered', FALSE)
    BY <2>1, ReadingNothing, Zenon
  <2>3. ~Found'
    BY <2>1 DEF Found
  <2> QED
    BY <2>2, <2>3, ReadingStill, Zenon
<1>2. ASSUME NEW p \in Packets, WriteTcp(p) PROVE WholeInv'
  <2>1. PICK skip \in WouldBlock :
          /\ stream' = stream \o Joined(Pieces(p), skip)
          /\ sent' = IF skip = 1 .. 3 THEN sent ELSE Append(sent, p)
          /\ torn' = (torn \/ skip \notin {{}, 1 .. 3})
    BY <1>2 DEF WriteTcp
  <2>2. open = TRUE /\ open' = TRUE /\ UNCHANGED receiver
    BY <1>2 DEF WriteTcp, ReadInv
  <2> SUFFICES ASSUME ~torn' PROVE WholeInv'
    BY DEF WholeInv
  <2>3. ~torn /\ (skip = {} \/ skip = 1 .. 3)
    BY <2>1
  <2>4. CASE skip = 1 .. 3
    <3>1. 1 \in skip /\ 2 \in skip /\ 3 \in skip
      BY <2>4
    <3>2. Joined(Pieces(p), skip) = (<<>> \o <<>>) \o <<>>
      BY <3>1, Zenon DEF Joined
    <3>3. <<>> \o <<>> = <<>>
      BY ConcatEmptySeq
    <3>4. stream' = stream
      BY <3>2, <3>3, <2>1, <1>0, ConcatEmptySeq
    <3>5. mBuffer' = mBuffer /\ mState' = mState /\ delivered' = delivered
      BY <2>2 DEF receiver
    <3>6. ~torn
      BY <2>3
    <3>7. mBuffer' \o stream' = mBuffer \o stream /\ sent' = sent /\ open' = open
      BY <3>4, <3>5, <2>1, <2>2, <2>4
    <3>8. Found' => Found
      BY <3>5 DEF Found
    <3> QED
      BY <3>5, <3>6, <3>7, <3>8, WholeKept
  <2>5. CASE skip = {}
    <3> DEFINE X == Joined(Pieces(p), {})
    <3>1. /\ X \in Seq(Nat) /\ Len(X) = Prefix + Len(p)
          /\ \A b \in 1 .. Prefix + Len(p) : X[b] = FrameByte(p, b)
      BY <1>2, FrameBytes
    <3>2. stream' = stream \o X
      BY <2>1, <2>5
    <3>3. {} # 1 .. 3
      OBVIOUS
    <3>4. sent' = Append(sent, p)
      BY <3>3, <2>1, <2>5
    <3> HIDE DEF X
    <3>5. Len(X) <= Prefix + Len(p)
      BY <3>1, <1>2, PrefixFacts
    <3>6. \A b \in 1 .. Len(X) : X[b] = FrameByte(p, b)
      BY <3>1
    <3> QED
      BY <3>1, <3>2, <3>4, <3>5, <3>6, <2>2, <2>3, <1>2, WholeSent, Zenon
  <2> QED
    BY <2>3, <2>4, <2>5
<1>3. ASSUME NEW p \in Packets, WriteBreaks(p) PROVE WholeInv'
  <2> DEFINE X == Joined(Pieces(p), {})
  <2>1. PICK n \in 1 .. Prefix + Len(p) - 1 : stream' = stream \o SubSeq(X, 1, n)
    BY <1>3 DEF WriteBreaks
  <2>2. open /\ open' = FALSE /\ sent' = Append(sent, p) /\ torn' = torn /\ UNCHANGED receiver
    BY <1>3 DEF WriteBreaks
  <2> DEFINE Y == SubSeq(X, 1, n)
  <2>3. StartsFrame(Y, p)
    BY <1>3, FrameCut, Zenon
  <2> HIDE DEF X, Y
  <2>4. stream' = stream \o Y
    BY <2>1 DEF X, Y
  <2>5. open' \in BOOLEAN /\ ~open' /\ (~torn' => ~torn)
    BY <2>2
  <2> QED
    BY <2>2, <2>3, <2>4, <2>5, <1>3, WholeSent, Zenon DEF StartsFrame
\* A reader's step that takes n bytes.
<1>m. ASSUME NEW n \in 0 .. Len(stream), NEW len, ReadTcp(len, n)
      PROVE  /\ mBuffer \o SubSeq(stream, 1, n) \in Seq(Nat)
             /\ (mBuffer \o SubSeq(stream, 1, n)) \o stream' = mBuffer \o stream
  <2>1. stream' = SubSeq(stream, n + 1, Len(stream))
    BY <1>m DEF ReadTcp
  <2>2. /\ (mBuffer \o SubSeq(stream, 1, n)) \o SubSeq(stream, n + 1, Len(stream)) = mBuffer \o stream
        /\ mBuffer \o SubSeq(stream, 1, n) \in Seq(Nat)
    BY <1>0, <1>m, Moved, Zenon
  <2> QED
    BY <2>1, <2>2, Zenon
<1>k. ASSUME NEW n \in 0 .. Len(stream), NEW len, ReadTcp(len, n),
             mBuffer' = mBuffer \o SubSeq(stream, 1, n), UNCHANGED <<sender, delivered>>,
             mState # "SYNC"
      PROVE  WholeInv'
  <2>1. mBuffer' \o stream' = mBuffer \o stream
    BY <1>k, <1>m, Zenon
  <2>2. Found /\ UNCHANGED <<sent, delivered, open>> /\ torn' = torn
    BY <1>k DEF Found, sender
  <2> QED
    BY <2>1, <2>2, WholeKept, Zenon
<1>s. ASSUME NEW n \in 0 .. Len(stream), NEW len, ReadTcp(len, n),
             mBuffer' = <<>>, mState' = "SYNC", UNCHANGED <<sender, delivered>>
      PROVE  WholeInv'
  BY <1>s, <1>m, <1>0, WholeSlip, Zenon
<1>4. CASE Sync
  <2>1. UNCHANGED <<sender, delivered>> /\ mState = "SYNC"
    BY <1>4 DEF Sync
  <2> DEFINE len == Len(mBuffer) + 1
             read == Append(mBuffer, Head(stream))
  <2>2. CASE ReadTcp(len, 1) /\ Slip /\ UNCHANGED mState
    <3>1. mBuffer' = <<>> /\ mState' = "SYNC" /\ 1 \in 0 .. Len(stream)
      BY <2>2, <2>1, <1>0 DEF Slip, ReadTcp
    <3> HIDE DEF len
    <3> QED
      BY <3>1, <2>1, <2>2, <1>s
  <2>3. CASE /\ ReadTcp(len, 1) /\ mBuffer' = read
             /\ mState' = IF read = Header THEN "HEADER" ELSE "SYNC"
    <3>1. 1 <= Len(stream) /\ 1 \in 0 .. Len(stream)
      BY <2>3, <1>0 DEF ReadTcp
    <3>2. read = mBuffer \o SubSeq(stream, 1, 1)
      BY <3>1, <1>0, OneByte
    <3> HIDE DEF len, read
    <3>3. mBuffer' \o stream' = mBuffer \o stream
      BY <3>1, <3>2, <2>3, <1>m, Zenon
    <3>4. CASE read = Header
      <4>1. mBuffer' = Header
        BY <3>4, <2>3
      <4> QED
        BY <4>1, <3>3, <2>1, <1>0, WholeFound, Zenon
    <3>5. CASE read # Header
      <4>1. ~Found' /\ UNCHANGED <<sent, delivered, open>> /\ torn' = torn
        BY <3>5, <2>1, <2>3 DEF Found, sender
      <4> QED
        BY <4>1, <3>3, WholeKept, Zenon
    <3> QED
      BY <3>4, <3>5
  <2>4. CASE ReadTcp(len, 0) /\ Slip /\ UNCHANGED mState
    <3>1. mBuffer' = <<>> /\ mState' = "SYNC" /\ 0 \in 0 .. Len(stream)
      BY <2>4, <2>1, <1>0 DEF Slip
    <3> HIDE DEF len
    <3> QED
      BY <3>1, <2>1, <2>4, <1>s
  <2> QED
    BY <2>2, <2>3, <2>4, <1>4 DEF Sync
<1>5. CASE ReadHeader
  <2>1. PICK n \in 0 .. Len(stream) :
          /\ ReadTcp(Prefix, n)
          /\ \/ mBuffer' = <<>> /\ mState' = "SYNC"
             \/ mBuffer' = mBuffer \o SubSeq(stream, 1, n)
    BY <1>5, Zenon DEF ReadHeader, Slip
  <2>2. UNCHANGED <<sender, delivered>> /\ mState # "SYNC"
    BY <1>5 DEF ReadHeader
  <2> QED
    BY <2>1, <2>2, <1>k, <1>s, Zenon
<1>6. CASE RefuseData
  <2>1. /\ mBuffer' = <<>> /\ mState' = "SYNC" /\ UNCHANGED <<sender, delivered>>
        /\ stream' = stream
    BY <1>6 DEF RefuseData, Slip
  <2>2. mBuffer \o stream' = mBuffer \o stream
    BY <2>1
  <2> QED
    BY <2>1, <2>2, <1>0, WholeSlip, Zenon
<1>7. CASE ReadData
  <2>1. PICK n \in 0 .. Len(stream) :
          ReadTcp(BucketSize + Prefix, n) /\ mBuffer' = mBuffer \o SubSeq(stream, 1, n)
    BY <1>7 DEF ReadData
  <2>2. UNCHANGED <<sender, delivered>> /\ mState # "SYNC"
    BY <1>7 DEF ReadData
  <2> QED
    BY <2>1, <2>2, <1>k, Zenon
<1>8. CASE Deliver
  BY <1>8, WholeDelivered
<1>9. CASE UNCHANGED tcpVars
  <2>1. /\ mBuffer' \o stream' = mBuffer \o stream /\ (Found' => Found)
        /\ UNCHANGED <<sent, delivered, open>> /\ torn' = torn
    BY <1>9 DEF tcpVars, receiver, sender, Found
  <2> QED
    BY <2>1, WholeKept, Zenon
<1> QED
  BY <1>1, <1>2, <1>3, <1>4, <1>5, <1>6, <1>7, <1>8, <1>9 DEF TcpNext

\* The two invariants say that what was read are whole frames.
LEMMA ReadWhole == ReadInv /\ WholeInv => WholeFrames
<1> SUFFICES ASSUME ReadInv, WholeInv, ~torn, NoHeaders(sent)
             PROVE  \E place \in [DOMAIN delivered -> DOMAIN sent] :
                        \A k \in DOMAIN delivered :
                            delivered[k] = sent[place[k]] /\ (k > 1 => place[k - 1] < place[k])
  BY DEF WholeFrames, NoHeaders
<1>1. PICK e \in Places(Len(sent)), F \in Seq(Nat), p \in Nat : \E g : Taken(g, e, p, sent, delivered)
  BY DEF WholeInv, Reading
<1>2. PICK g : Taken(g, e, p, sent, delivered)
  BY <1>1
<1>3. DOMAIN sent = 1 .. Len(sent) /\ DOMAIN delivered = 1 .. Len(delivered)
  BY DEF ReadInv
<1>4. /\ g \in [DOMAIN delivered -> DOMAIN sent]
      /\ \A k \in DOMAIN delivered :
            delivered[k] = sent[g[k]] /\ (k > 1 => g[k - 1] < g[k])
  BY <1>2, <1>3 DEF Taken
<1> QED
  BY <1>4

\* The Unreal server: if no frame has a header in it but at the start, nothing else
\* is taken for one, and whatever the reader threw away, what it delivers are whole
\* packets, in their order.
THEOREM FramesWhole == TcpSpec => []WholeFrames
<1>1. TcpInit => ReadInv /\ WholeInv
  BY ReadInitial, WholeInitial
<1>2. ReadInv /\ WholeInv /\ [TcpNext]_tcpVars => (ReadInv /\ WholeInv)'
  BY ReadStep, WholeStep
<1> QED
  BY <1>1, <1>2, ReadWhole, PTL DEF TcpSpec

-----------------------------------------------------------------------------
(* The subjects of the XSens parser.                                       *)

\* The transforms, with sizes from V.
Transforms(V) == [name : Nat, parentId : Int, data : BOOLEAN, scaleOf : V]

InPlace(t, k) ==
    t.name = k - 1 /\ t.parentId < t.name /\ (t.data => t.parentId = parentIndex[t.name])

\* The table up to some name.
Table(V) ==
    {items \in Seq(Transforms(V)) :
        Len(items) \in 1 .. Size /\ \A k \in 1 .. Len(items) : InPlace(items[k], k)}

\* The table has a root, and what a name hangs from is before it.
LEMMA NameFacts ==
    /\ Size \in Nat /\ Size >= 1 /\ Unknown = Size /\ Names = 1 .. Size
    /\ \A n \in 1 .. Size - 1 : parentIndex[n] \in 0 .. n - 1
<1>1. parentIndex \in Seq(Nat) /\ \A n \in DOMAIN parentIndex : parentIndex[n] \in 0 .. n - 1
  BY XsensAssumption
<1>2. Len(parentIndex) \in Nat /\ DOMAIN parentIndex = 1 .. Len(parentIndex)
  BY <1>1
<1>3. Size - 1 = Len(parentIndex)
  BY <1>2 DEF Size
<1> QED
  BY <1>1, <1>2, <1>3 DEF Size, Unknown, Names

\* Names of the table that a pose does not have, put behind.
LEMMA MissingFacts ==
    ASSUME NEW V, None \in V, NEW items \in Table(V), NEW to \in Len(items) .. Size
    PROVE  /\ items \o Missing(Len(items), to) \in Table(V)
           /\ Len(items \o Missing(Len(items), to)) = to
<1> DEFINE l == Len(items)
           m == Missing(l, to)
<1>1. /\ items \in Seq(Transforms(V)) /\ l \in 1 .. Size /\ l \in Nat /\ to \in Nat
      /\ \A k \in 1 .. l : InPlace(items[k], k)
      /\ l <= to /\ to <= Size
  BY NameFacts DEF Table
<1> HIDE DEF l
<1>2. ASSUME NEW k \in 1 .. to - l
      PROVE  Transform(l + k - 1, 0, FALSE, None) \in Transforms(V)
  <2>1. l + k - 1 \in Nat
    BY <1>1
  <2> QED
    BY <2>1 DEF Transform, Transforms
<1>3. /\ m \in Seq(Transforms(V)) /\ Len(m) = to - l
      /\ \A k \in 1 .. to - l : m[k] = Transform(l + k - 1, 0, FALSE, None)
  <2>1. m = [k \in 1 .. to - l |-> Transform(l + k - 1, 0, FALSE, None)]
    BY DEF Missing
  <2>2. to - l \in Nat
    BY <1>1
  <2>3. m \in [1 .. to - l -> Transforms(V)]
    BY <1>2, <2>1
  <2> DEFINE n == to - l
  <2> HIDE DEF m, n
  <2>4. m \in Seq(Transforms(V)) /\ Len(m) = n
    <3>1. n \in Nat /\ m \in [1 .. n -> Transforms(V)]
      BY <2>2, <2>3 DEF n
    <3> QED
      BY <3>1
  <2>5. \A k \in 1 .. to - l : m[k] = Transform(l + k - 1, 0, FALSE, None)
    BY <2>1, Zenon
  <2> QED
    BY <2>4, <2>5 DEF n
<1> HIDE DEF m
<1>4. /\ items \o m \in Seq(Transforms(V)) /\ Len(items \o m) = l + Len(m)
      /\ \A k \in 1 .. l + Len(m) : (items \o m)[k] = IF k <= l THEN items[k] ELSE m[k - l]
  BY <1>1, <1>3, ConcatProperties DEF l
<1>5. l + Len(m) = to
  BY <1>1, <1>3
<1>6. ASSUME NEW k \in 1 .. to PROVE InPlace((items \o m)[k], k)
  <2>1. CASE k <= l
    <3>1. k \in 1 .. l
      BY <1>1, <2>1
    <3> QED
      BY <1>1, <1>4, <1>5, <2>1, <3>1
  <2>2. CASE ~(k <= l)
    <3>1. k - l \in 1 .. to - l /\ l + (k - l) - 1 = k - 1 /\ 0 < k - 1
      BY <1>1, <2>2
    <3>2. (items \o m)[k] = Transform(k - 1, 0, FALSE, None)
      BY <1>3, <1>4, <1>5, <2>2, <3>1
    <3> QED
      BY <3>1, <3>2 DEF Transform, InPlace
  <2> QED
    BY <2>1, <2>2
<1>7. to \in 1 .. Size
  BY <1>1
<1> QED
  BY <1>4, <1>5, <1>6, <1>7 DEF Table, l, m

\* A segment makes the table longer.
LEMMA SegmentFacts ==
    ASSUME NEW V, None \in V, NEW items \in Table(V), Len(items) # Size,
           NEW name \in Names, NEW scale, NEW i,
           Len(items) <= name /\ name < Len(scale) => scale[i] \in V
    PROVE  /\ Segment(items, i, name, scale) \in Table(V)
           /\ Len(Segment(items, i, name, scale)) \in Len(items) + 1 .. Size
<1> DEFINE l == Len(items)
<1>1. l \in 1 .. Size /\ l \in Nat /\ l < Size /\ Size \in Nat /\ name \in 1 .. Size /\ Unknown = Size
  BY NameFacts DEF Table
<1>2. CASE name < l \/ name = Unknown
  <2>1. Segment(items, i, name, scale) = items \o Missing(l, Size)
    BY <1>2 DEF Segment
  <2>2. Size \in l .. Size
    BY <1>1
  <2> QED
    BY <1>1, <2>1, <2>2, MissingFacts
<1>3. CASE ~(name < l \/ name = Unknown)
  <2> DEFINE front == items \o Missing(l, name)
             t == Transform(name, parentIndex[name], TRUE,
                            IF name < Len(scale) THEN scale[i] ELSE None)
  <2>1. Segment(items, i, name, scale) = front \o <<t>>
    BY <1>3 DEF Segment
  <2>2. name \in l .. Size /\ name \in 1 .. Size - 1 /\ name \in Nat /\ name + 1 \in l + 1 .. Size
    BY <1>1, <1>3
  <2>3. front \in Table(V) /\ Len(front) = name
    BY <2>2, MissingFacts
  <2>4. parentIndex[name] \in 0 .. name - 1
    BY <2>2, NameFacts
  <2>5. t \in Transforms(V) /\ InPlace(t, name + 1)
    <3>1. (IF name < Len(scale) THEN scale[i] ELSE None) \in V
      BY <2>2
    <3>2. (name + 1) - 1 = name /\ parentIndex[name] < name /\ parentIndex[name] \in Int
      BY <2>2, <2>4
    <3> QED
      BY <2>2, <3>1, <3>2 DEF Transform, Transforms, InPlace
  <2> HIDE DEF front, t, l
  <2>6. front \in Seq(Transforms(V)) /\ \A k \in 1 .. name : InPlace(front[k], k)
    BY <2>3 DEF Table
  <2>7. /\ front \o <<t>> \in Seq(Transforms(V)) /\ Len(front \o <<t>>) = name + 1
        /\ \A k \in 1 .. name + 1 : (front \o <<t>>)[k] = IF k <= name THEN front[k] ELSE t
    BY <2>2, <2>3, <2>5, <2>6
  <2>8. ASSUME NEW k \in 1 .. name + 1 PROVE InPlace((front \o <<t>>)[k], k)
    <3>1. (k \in 1 .. name /\ k <= name) \/ (k = name + 1 /\ ~(k <= name))
      BY <2>2
    <3> QED
      BY <2>5, <2>6, <2>7, <3>1
  <2>9. name + 1 \in 1 .. Size
    BY <1>1, <2>2
  <2>10. front \o <<t>> \in Table(V)
    BY <2>7, <2>8, <2>9 DEF Table
  <2> QED
    BY <2>1, <2>2, <2>7, <2>10 DEF l
<1> QED
  BY <1>2, <1>3

\* One more segment of a pose.
AddSegment(items, i, ids, names) ==
    IF Len(items) = Size THEN items
    ELSE Segment(items, i, IF ids[i] \in DOMAIN names THEN names[ids[i]] ELSE Unknown, names)

\* The function the fold of Posed chooses.
PosesSegments(f, places, ids, names) ==
    f = [s \in SUBSET (DOMAIN places) |->
           IF s = {} THEN <<Root>>
           ELSE AddSegment(f[s \ {Max(s)}], places[Max(s)], ids, names)]

\* A segment added leaves the table up to some name.  The size taken is that of the
\* segment's place in the message, which there is, as no name is without a segment.
LEMMA AddSegmentFacts ==
    ASSUME NEW V, None \in V, NEW items \in Table(V), NEW i \in Nat, NEW ids,
           NEW names \in SegmentLists,
           names[i] \in V \/ (i \in 1 .. Len(items) /\ V = Nat)
    PROVE  /\ AddSegment(items, i, ids, names) \in Table(V)
           /\ Len(items) # Size => Len(AddSegment(items, i, ids, names)) \in Len(items) + 1 .. Size
           /\ Len(items) = Size => AddSegment(items, i, ids, names) = items
<1> DEFINE name == IF ids[i] \in DOMAIN names THEN names[ids[i]] ELSE Unknown
<1>1. PICK n \in 0 .. MaxSegments : names \in [1 .. n -> Names]
  BY DEF SegmentLists
<1>2. n \in Nat
  BY <1>1, XsensAssumption
<1>3. /\ DOMAIN names = 1 .. n /\ Len(names) = n
      /\ \A k \in 1 .. n : names[k] \in Names /\ names[k] \in Nat
  <2>1. \A k \in 1 .. n : names[k] \in Names
    BY <1>1
  <2>2. Names \subseteq Nat
    BY NameFacts
  <2>3. DOMAIN names = 1 .. n /\ Len(names) = n
    BY <1>1, <1>2
  <2> QED
    BY <2>1, <2>2, <2>3
<1>4. name \in Names
  BY <1>3, NameFacts
<1>5. Len(items) <= name /\ name < Len(names) => names[i] \in V
  <2>1. Len(items) \in Nat /\ name \in Nat
    BY <1>4, NameFacts DEF Table
  <2>2. ASSUME i \in 1 .. Len(items), V = Nat, Len(items) <= name, name < Len(names)
        PROVE  names[i] \in V
    <3>1. i \in 1 .. n
      BY <1>2, <1>3, <2>1, <2>2
    <3> QED
      BY <1>3, <2>2, <3>1
  <2> QED
    BY <2>2
<1>6. CASE Len(items) # Size
  <2>1. AddSegment(items, i, ids, names) = Segment(items, i, name, names)
    BY <1>6 DEF AddSegment
  <2> HIDE DEF name
  <2> QED
    BY <1>4, <1>5, <1>6, <2>1, SegmentFacts
<1>7. CASE Len(items) = Size
  BY <1>7 DEF AddSegment
<1> QED
  BY <1>6, <1>7

\* The table with the root alone.
LEMMA RootFacts == ASSUME NEW V, None \in V PROVE <<Root>> \in Table(V) /\ Len(<<Root>>) = 1
<1>1. Root \in Transforms(V) /\ InPlace(Root, 1)
  BY DEF Root, Transform, Transforms, InPlace
<1> QED
  BY <1>1, NameFacts DEF Table

\* A pose, whatever its segments, leaves the table up to some name.
LEMMA PosedInPlace ==
    ASSUME NEW ids \in SegmentLists, NEW names \in SegmentLists
    PROVE  Posed(ids, names) \in Table(Nat)
<1> DEFINE places == [i \in DOMAIN ids |-> i]
<1>1. PICK n \in 0 .. MaxSegments : ids \in [1 .. n -> Names]
  BY DEF SegmentLists
<1>2. n \in Nat /\ DOMAIN ids = 1 .. n /\ DOMAIN places = 1 .. n /\ \A i \in 1 .. n : places[i] = i
  BY <1>1, XsensAssumption
<1>3. Posed(ids, names) = (CHOOSE f : PosesSegments(f, places, ids, names))[DOMAIN places]
  BY DEF Posed, FoldLeft, MapThenFoldSet, PosesSegments, AddSegment
<1> HIDE DEF places
<1> DEFINE V == {names[i] : i \in 1 .. n} \cup {None}
           A == Table(V)
           G == [p \in A \X (1 .. n) |-> AddSegment(p[1], p[2], ids, names)]
<1>4. None \in V /\ \A i \in 1 .. n : names[i] \in V
  OBVIOUS
<1>5. \A a \in A : \A i \in 1 .. n :
        G[<<a, i>>] = AddSegment(a, i, ids, names) /\ G[<<a, i>>] \in A
  <2> HIDE DEF V
  <2>1. ASSUME NEW a \in A, NEW i \in 1 .. n PROVE AddSegment(a, i, ids, names) \in A
    BY <1>2, <1>4, AddSegmentFacts
  <2> QED
    BY <2>1
<1>6. <<Root>> \in A
  <2> HIDE DEF V
  <2> QED
    BY <1>4, RootFacts
<1> HIDE DEF A, G, V
<1>7. PICK g \in [SUBSET (1 .. n) -> A] : Folds(g, n, <<Root>>, G)
  <2>1. n \in Nat /\ <<Root>> \in A /\ \A a \in A : \A i \in 1 .. n : G[<<a, i>>] \in A
    BY <1>2, <1>5, <1>6
  <2> QED
    BY <2>1, FoldExists, Zenon
<1>8. PosesSegments(g, places, ids, names)
  <2>1. ASSUME NEW s \in SUBSET (1 .. n)
        PROVE  g[s] = IF s = {} THEN <<Root>>
                      ELSE AddSegment(g[s \ {Max(s)}], places[Max(s)], ids, names)
    <3>1. g[s] = IF s = {} THEN <<Root>> ELSE G[<<g[s \ {Max(s)}], Max(s)>>]
      BY <1>7 DEF Folds
    <3>2. s # {} => Max(s) \in 1 .. n /\ places[Max(s)] = Max(s) /\ g[s \ {Max(s)}] \in A
      BY <1>2, <1>7, GreatestFacts
    <3> QED
      BY <3>1, <3>2, <1>5
  <2>2. g = [s \in SUBSET (1 .. n) |->
               IF s = {} THEN <<Root>>
               ELSE AddSegment(g[s \ {Max(s)}], places[Max(s)], ids, names)]
    BY <1>7, <2>1
  <2> QED
    BY <1>2, <2>2 DEF PosesSegments
<1> DEFINE f == CHOOSE h : PosesSegments(h, places, ids, names)
<1>9. PosesSegments(f, places, ids, names)
  BY <1>8, Zenon
<1> HIDE DEF f
<1>10. /\ f[{}] = <<Root>>
       /\ \A k \in 1 .. n : f[1 .. k] = AddSegment(f[1 .. k - 1], k, ids, names)
  <2>1. \A s \in SUBSET (1 .. n) :
          f[s] = IF s = {} THEN <<Root>>
                 ELSE AddSegment(f[s \ {Max(s)}], places[Max(s)], ids, names)
    BY <1>2, <1>9 DEF PosesSegments
  <2>2. f[{}] = <<Root>>
    BY <2>1
  <2>3. ASSUME NEW k \in 1 .. n
        PROVE  f[1 .. k] = AddSegment(f[1 .. k - 1], k, ids, names)
    <3>1. /\ 1 .. k # {} /\ 1 .. k \in SUBSET (1 .. n) /\ Max(1 .. k) = k
          /\ (1 .. k) \ {k} = 1 .. k - 1 /\ places[k] = k
      BY <1>2, PlaceFacts
    <3>2. f[1 .. k] = AddSegment(f[(1 .. k) \ {Max(1 .. k)}], places[Max(1 .. k)], ids, names)
      BY <2>1, <3>1
    <3> QED
      BY <3>1, <3>2
  <2> QED
    BY <2>2, <2>3
<1> DEFINE As == [k \in 0 .. n |-> {items \in Table(Nat) : k < Len(items) \/ Len(items) = Size}]
<1>11. \A k \in 0 .. n : As[k] = {items \in Table(Nat) : k < Len(items) \/ Len(items) = Size}
  OBVIOUS
<1> HIDE DEF As
<1>12. f[{}] \in As[0]
  <2>1. 0 \in 0 .. n /\ None \in Nat
    BY <1>2 DEF None
  <2>2. <<Root>> \in Table(Nat) /\ Len(<<Root>>) = 1
    BY <2>1, RootFacts
  <2>3. f[{}] \in Table(Nat) /\ 0 < Len(f[{}])
    BY <1>10, <2>2
  <2>4. As[0] = {items \in Table(Nat) : 0 < Len(items) \/ Len(items) = Size}
    BY <1>11, <2>1
  <2> QED
    BY <2>3, <2>4
<1>13. ASSUME NEW k \in 1 .. n, f[1 .. k - 1] \in As[k - 1] PROVE f[1 .. k] \in As[k]
  <2> DEFINE items == f[1 .. k - 1]
             more == AddSegment(items, k, ids, names)
  <2>1. k \in 0 .. n /\ k - 1 \in 0 .. n /\ k \in Nat /\ None \in Nat
    BY <1>2 DEF None
  <2>2. items \in Table(Nat) /\ (k - 1 < Len(items) \/ Len(items) = Size)
    BY <1>11, <1>13, <2>1
  <2> HIDE DEF items
  <2>3. Len(items) \in 1 .. Size /\ Size \in Nat
    BY <2>2, NameFacts DEF Table
  <2>4. CASE Len(items) = Size
    <3>1. more = items
      BY <2>4 DEF AddSegment
    <3> QED
      BY <1>10, <1>11, <2>1, <2>2, <2>4, <3>1 DEF items
  <2>5. CASE Len(items) # Size
    <3>1. k \in 1 .. Len(items)
      BY <2>1, <2>2, <2>3, <2>5
    <3>2. more \in Table(Nat) /\ Len(more) \in Len(items) + 1 .. Size
      BY <2>1, <2>2, <2>5, <3>1, AddSegmentFacts
    <3> HIDE DEF more
    <3>3. k < Len(more)
      BY <2>1, <2>3, <3>1, <3>2
    <3> QED
      BY <1>10, <1>11, <2>1, <3>2, <3>3 DEF items, more
  <2> QED
    BY <2>4, <2>5
<1>14. f[1 .. n] \in As[n]
  BY <1>2, <1>12, <1>13, FoldKeeps
<1>15. f[1 .. n] \in Table(Nat)
  BY <1>2, <1>11, <1>14
<1> QED
  BY <1>2, <1>3, <1>15 DEF f

\* The subjects are tables, and those with names and sizes are among them.
XsensInv ==
    /\ characters \in Seq(Table(Nat) \cup {<<>>})
    /\ DOMAIN info \subseteq Characters /\ \A c \in DOMAIN info : info[c] \in SegmentLists
    /\ \A c \in DOMAIN info : c < Len(characters)

\* It holds at first.
LEMMA XsensInitial == XsensInit => XsensInv
<1>1. <<>> \in Seq(Table(Nat) \cup {<<>>})
  OBVIOUS
<1>2. DOMAIN [c \in {} |-> <<>>] = {}
  OBVIOUS
<1> QED
  BY <1>1, <1>2 DEF XsensInit, XsensInv

\* Each datagram keeps it.
LEMMA XsensStep == XsensInv /\ [XsensNext]_xsensVars => XsensInv'
<1> DEFINE S == Table(Nat) \cup {<<>>}
<1> SUFFICES ASSUME XsensInv, [XsensNext]_xsensVars PROVE XsensInv'
  OBVIOUS
<1>0. /\ characters \in Seq(S) /\ Len(characters) \in Nat /\ <<>> \in S
      /\ DOMAIN info \subseteq Characters /\ Characters \subseteq Nat
      /\ \A c \in DOMAIN info : info[c] \in SegmentLists /\ c < Len(characters)
  <2>1. Characters \subseteq Nat
    BY XsensAssumption DEF Characters
  <2> QED
    BY <2>1 DEF XsensInv
<1> HIDE DEF S
<1>g. ASSUME NEW c \in Characters, GetSubject(c)
      PROVE  characters' \in Seq(S) /\ c < Len(characters') /\ Len(characters) <= Len(characters')
  <2>1. c \in Nat /\ c <= Len(characters)
    BY <1>0, <1>g DEF GetSubject
  <2>2. CASE c = Len(characters)
    <3>1. characters' = Append(characters, <<>>)
      BY <1>g, <2>2 DEF GetSubject
    <3>2. Append(characters, <<>>) \in Seq(S) /\ Len(Append(characters, <<>>)) = Len(characters) + 1
      BY <1>0
    <3> QED
      BY <1>0, <2>2, <3>1, <3>2
  <2>3. CASE c # Len(characters)
    BY <1>0, <1>g, <2>1, <2>3 DEF GetSubject
  <2> QED
    BY <2>2, <2>3
<1>k. ASSUME info' = info, characters' \in Seq(S), Len(characters) <= Len(characters')
      PROVE  XsensInv'
  <2>1. Len(characters') \in Nat
    BY <1>k
  <2>2. ASSUME NEW c \in DOMAIN info PROVE c < Len(characters')
    <3>1. c \in Nat /\ c < Len(characters)
      BY <1>0, <2>2
    <3> QED
      BY <1>0, <1>k, <2>1, <3>1
  <2> QED
    BY <1>0, <1>k, <2>2 DEF XsensInv, S
<1>1. ASSUME NEW c \in Characters, GetMeta(c) PROVE XsensInv'
  BY <1>1, <1>g, <1>k DEF GetMeta
<1>2. ASSUME NEW c \in Characters, NEW names \in SegmentLists, GetScale(c, names) PROVE XsensInv'
  <2>1. characters' \in Seq(S) /\ c < Len(characters') /\ Len(characters) <= Len(characters')
    BY <1>2, <1>g DEF GetScale
  <2>2. info' = [d \in DOMAIN info \cup {c} |-> IF d = c THEN names ELSE info[d]]
    BY <1>2 DEF GetScale
  <2>3. Len(characters') \in Nat
    BY <2>1
  <2>4. DOMAIN info' = DOMAIN info \cup {c}
    BY <2>2
  <2>5. ASSUME NEW d \in DOMAIN info' PROVE info'[d] \in SegmentLists /\ d < Len(characters')
    <3>1. CASE d = c
      BY <1>2, <2>1, <2>2, <2>4, <3>1
    <3>2. CASE d # c
      <4>1. d \in DOMAIN info /\ info'[d] = info[d]
        BY <2>2, <2>4, <2>5, <3>2
      <4>2. d \in Nat /\ d < Len(characters) /\ info[d] \in SegmentLists
        BY <1>0, <4>1
      <4> QED
        BY <1>0, <2>1, <2>3, <4>1, <4>2
    <3> QED
      BY <3>1, <3>2
  <2> QED
    BY <1>0, <2>1, <2>4, <2>5 DEF XsensInv, S
<1>3. ASSUME NEW c \in Characters, NEW ids \in SegmentLists, GetQuaternionPose(c, ids)
      PROVE  XsensInv'
  <2> DEFINE items == IF c \in DOMAIN info THEN Posed(ids, info[c]) ELSE <<Root>>
  <2>1. items \in S
    <3>1. CASE c \in DOMAIN info
      BY <1>0, <3>1, PosedInPlace DEF S
    <3>2. CASE c \notin DOMAIN info
      <4>1. None \in Nat
        BY DEF None
      <4> QED
        BY <3>2, <4>1, RootFacts DEF S
    <3> QED
      BY <3>1, <3>2
  <2>2. /\ c <= Len(characters) /\ info' = info
        /\ characters' = IF c = Len(characters) THEN Append(characters, items)
                         ELSE [characters EXCEPT ![c + 1] = items]
    BY <1>3 DEF GetQuaternionPose
  <2> HIDE DEF items
  <2>3. CASE c = Len(characters)
    <3>1. characters' = Append(characters, items)
      BY <2>2, <2>3
    <3>2. Append(characters, items) \in Seq(S) /\ Len(Append(characters, items)) = Len(characters) + 1
      BY <1>0, <2>1
    <3>3. Len(characters) <= Len(characters')
      BY <1>0, <3>1, <3>2
    <3> QED
      BY <1>k, <2>2, <3>1, <3>2, <3>3
  <2>4. CASE c # Len(characters)
    <3>1. characters' = [characters EXCEPT ![c + 1] = items]
      BY <2>2, <2>4
    <3>2. characters' \in Seq(S) /\ Len(characters') = Len(characters)
      <4> DEFINE n == Len(characters)
      <4>1. n \in Nat /\ characters \in [1 .. n -> S]
        BY <1>0
      <4> HIDE DEF n
      <4>2. [characters EXCEPT ![c + 1] = items] \in [1 .. n -> S]
        BY <2>1, <4>1
      <4>3. characters' \in Seq(S) /\ Len(characters') = n
        BY <3>1, <4>1, <4>2
      <4> QED
        BY <4>3 DEF n
    <3>3. Len(characters) <= Len(characters')
      BY <1>0, <3>2
    <3> QED
      BY <1>k, <2>2, <3>2, <3>3
  <2> QED
    BY <2>3, <2>4
<1>4. ASSUME UNCHANGED <<info, characters>> PROVE XsensInv'
  BY <1>0, <1>4 DEF XsensInv, S
<1>5. CASE UNCHANGED xsensVars
  BY <1>4, <1>5 DEF xsensVars
<1>6. CASE XsensNext
  <2>1. \/ \E c \in Characters :
             \/ GetNoSubject(c)
             \/ GetMeta(c)
             \/ \E names \in SegmentLists : GetScale(c, names)
             \/ \E ids \in SegmentLists : GetQuaternionPose(c, ids)
        \/ CutShort
    BY <1>6 DEF XsensNext
  <2>2. \A c \in Characters : GetNoSubject(c) => UNCHANGED <<info, characters>>
    BY DEF GetNoSubject
  <2>3. CutShort => UNCHANGED <<info, characters>>
    BY DEF CutShort
  <2> QED
    BY <1>1, <1>2, <1>3, <1>4, <2>1, <2>2, <2>3
<1> QED
  BY <1>5, <1>6

\* Whatever segments a message leaves out, renames or puts in another order, each
\* segment of a subject stands where parents are looked up.
THEOREM XsensInPlace == XsensSpec => []SegmentsInPlace
<1>1. XsensInv => SegmentsInPlace
  <2> SUFFICES ASSUME XsensInv, NEW c \in DOMAIN characters, NEW k \in DOMAIN characters[c]
               PROVE  InPlace(characters[c][k], k)
    BY DEF SegmentsInPlace, InPlace
  <2>1. characters[c] \in Table(Nat) \cup {<<>>}
    BY DEF XsensInv
  <2>2. characters[c] # <<>>
    OBVIOUS
  <2> QED
    BY <2>1, <2>2 DEF Table
<1> QED
  BY <1>1, XsensInitial, XsensStep, PTL DEF XsensSpec

-----------------------------------------------------------------------------
(* The types of both.                                                      *)

\* What ReadInv leaves out of the types.
CountsTyped ==
    /\ dials \in 0 .. MaxDials /\ writes \in 0 .. MaxWrites
    /\ torn \in BOOLEAN /\ slipped \in BOOLEAN

\* The counters are typed initially.
LEMMA CountsInitial == TcpInit => CountsTyped
<1> SUFFICES ASSUME TcpInit PROVE CountsTyped
  OBVIOUS
<1>1. dials = 0 /\ writes = 0 /\ torn = FALSE /\ slipped = FALSE
  BY DEF TcpInit
<1>2. MaxDials \in Nat /\ MaxWrites \in Nat
  BY TcpAssumption
<1>3. dials \in 0 .. MaxDials /\ writes \in 0 .. MaxWrites
  BY <1>1, <1>2
<1>4. torn \in BOOLEAN /\ slipped \in BOOLEAN
  BY <1>1, Zenon
<1> QED
  BY <1>3, <1>4 DEF CountsTyped

\* Every step keeps the counters' types.
LEMMA CountsStep == CountsTyped /\ [TcpNext]_tcpVars => CountsTyped'
<1> SUFFICES ASSUME CountsTyped, [TcpNext]_tcpVars PROVE CountsTyped'
  OBVIOUS
<1>0. /\ dials \in 0 .. MaxDials /\ writes \in 0 .. MaxWrites
      /\ torn \in BOOLEAN /\ slipped \in BOOLEAN /\ MaxDials \in Nat /\ MaxWrites \in Nat
  BY TcpAssumption DEF CountsTyped
<1>1. /\ dials' = dials \/ (dials < MaxDials /\ dials' = dials + 1)
      /\ writes' = writes \/ writes' = 0 \/ (writes < MaxWrites /\ writes' = writes + 1)
  <2>1. CASE Dial
    BY <2>1 DEF Dial
  <2>2. ASSUME NEW p \in Packets, WriteTcp(p) \/ WriteBreaks(p)
        PROVE  writes < MaxWrites /\ writes' = writes + 1 /\ dials' = dials
    BY <2>2 DEF WriteTcp, WriteBreaks
  <2>3. CASE Sync \/ ReadHeader \/ RefuseData \/ ReadData \/ Deliver \/ UNCHANGED tcpVars
    BY <2>3 DEF Sync, ReadHeader, RefuseData, ReadData, Deliver, tcpVars, sender
  <2> QED
    BY <2>1, <2>2, <2>3 DEF TcpNext
<1>2. torn' \in BOOLEAN
  <2>1. CASE Dial
    BY <2>1 DEF Dial
  <2>2. ASSUME NEW p \in Packets, WriteTcp(p) \/ WriteBreaks(p) PROVE torn' \in BOOLEAN
    BY <1>0, <2>2 DEF WriteTcp, WriteBreaks
  <2>3. CASE Sync \/ ReadHeader \/ RefuseData \/ ReadData \/ Deliver \/ UNCHANGED tcpVars
    BY <1>0, <2>3 DEF Sync, ReadHeader, RefuseData, ReadData, Deliver, tcpVars, sender
  <2> QED
    BY <2>1, <2>2, <2>3 DEF TcpNext
<1>3. slipped' \in BOOLEAN
  <2>1. slipped' \in {slipped, TRUE, FALSE}
    BY DEF TcpNext, Dial, WriteTcp, WriteBreaks, Sync, ReadHeader, RefuseData, ReadData,
           Deliver, Slip, tcpVars, receiver
  <2> QED
    BY <1>0, <2>1
<1>4. dials' \in 0 .. MaxDials /\ writes' \in 0 .. MaxWrites
  BY <1>0, <1>1
<1> QED
  BY <1>2, <1>3, <1>4 DEF CountsTyped

\* Whatever is dialled, written and read, the sender's and the reader's state are
\* of their types, and a reader that waits for data has the length.
THEOREM TcpTyped == TcpSpec => []TcpTypeOK
<1>1. ReadInv /\ CountsTyped => TcpTypeOK
  BY DEF ReadInv, CountsTyped, TcpTypeOK
<1> QED
  BY <1>1, ReadInitial, ReadStep, CountsInitial, CountsStep, PTL DEF TcpSpec

\* How the program is, and how many datagrams it was given.
ProgramTyped == running \in {"yes", "thrown", "wild"} /\ datagrams \in 0 .. MaxDatagrams

\* The XSens program's state is typed before its first datagram.
LEMMA ProgramInitial == XsensInit => ProgramTyped
BY XsensAssumption DEF XsensInit, ProgramTyped

\* Every step of the XSens program keeps its types.
LEMMA ProgramStep == ProgramTyped /\ [XsensNext]_xsensVars => ProgramTyped'
<1> SUFFICES ASSUME ProgramTyped, [XsensNext]_xsensVars PROVE ProgramTyped'
  OBVIOUS
<1>1. CASE UNCHANGED xsensVars
  BY <1>1 DEF xsensVars, ProgramTyped
<1>2. CASE XsensNext
  <2>1. datagrams' \in 0 .. MaxDatagrams
    BY <1>2, XsensAssumption DEF ProgramTyped, XsensNext
  <2>2. running' \in {"yes", "thrown", "wild"}
    <3>1. \/ \E c \in Characters :
               \/ GetNoSubject(c)
               \/ GetMeta(c)
               \/ \E names \in SegmentLists : GetScale(c, names)
               \/ \E ids \in SegmentLists : GetQuaternionPose(c, ids)
          \/ CutShort
      BY <1>2 DEF XsensNext
    <3>2. \A c \in Characters : GetNoSubject(c) => running' = "wild"
      BY DEF GetNoSubject
    <3>3. \A c \in Characters : GetMeta(c) => running' = running
      BY DEF GetMeta
    <3>4. \A c \in Characters, names \in SegmentLists : GetScale(c, names) => running' = running
      BY DEF GetScale
    <3>5. \A c \in Characters, ids \in SegmentLists :
              GetQuaternionPose(c, ids) => running' \in {"yes", "wild"}
      BY DEF GetQuaternionPose
    <3>6. CutShort => running' = "thrown"
      BY DEF CutShort
    <3> QED
      BY <3>1, <3>2, <3>3, <3>4, <3>5, <3>6 DEF ProgramTyped
  <2> QED
    BY <2>1, <2>2 DEF ProgramTyped
<1> QED
  BY <1>1, <1>2

\* A character whose names are known has a subject, and the names were in some
\* message.
THEOREM XsensTyped == XsensSpec => []XsensTypeOK
<1>1. XsensInv /\ ProgramTyped => XsensTypeOK
  BY DEF XsensInv, ProgramTyped, XsensTypeOK
<1> QED
  BY <1>1, XsensInitial, XsensStep, ProgramInitial, ProgramStep, PTL DEF XsensSpec

=============================================================================
