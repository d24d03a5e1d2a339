------------------------------ MODULE ListProofs ------------------------------
(***************************************************************************)
(* Proofs about what a receiver makes of packets.  ConversionContext, for  *)
(* any contexts, units and points: a signed permutation with a scale       *)
(* leaves every pose where it was.  SubjectLists, for any uuids and any    *)
(* number of subjects and packets: what is listed, and what it shows.      *)
(***************************************************************************)
EXTENDS ConversionContext, SubjectLists, Induction, SequenceTheorems, FiniteSetTheorems, TLAPS

AllContexts == Contexts \cup {NoContext}

-----------------------------------------------------------------------------
(* The context of a packet.                                                *)

\* A direction comes back from the wire as it was.
LEMMA DirectionBack == \A d \in Directions \cup {"Unknown"} : Direction(WireDirection(d)) = d
<1>1. DOMAIN dir = Directions /\ \A d, e \in Directions : dir[d] = dir[e] => d = e
  BY DEF dir, Directions
<1>2. \A d \in Directions : dir[d] # "Direction_Unknown"
  BY DEF dir, Directions
<1>3. ASSUME NEW d \in Directions PROVE Direction(WireDirection(d)) = d
  <2>1. WireDirection(d) = dir[d]
    BY <1>1, <1>3 DEF WireDirection
  <2> QED
    BY <1>1, <1>3, <2>1 DEF Direction
<1>4. Direction(WireDirection("Unknown")) = "Unknown"
  <2>1. "Unknown" \notin Directions
    BY DEF Directions
  <2>2. WireDirection("Unknown") = "Direction_Unknown"
    BY <1>1, <2>1 DEF WireDirection
  <2> QED
    BY <1>1, <1>2, <2>2 DEF Direction
<1> QED
  BY <1>3, <1>4

\* And so does a unit: the two enumerations are in the same order.
LEMMA UnitBack ==
    ASSUME NEW u \in Units
    PROVE  (IF distUnit(u) = 0 THEN "Unknown" ELSE DistanceUnits[distUnit(u)]) = u
<1>1. WireUnits = DistanceUnits /\ DOMAIN WireUnits = 1 .. 9
  BY DEF WireUnits, DistanceUnits
<1>2. CASE \E n \in DOMAIN WireUnits : WireUnits[n] = u
  <2> DEFINE n == CHOOSE n \in DOMAIN WireUnits : WireUnits[n] = u
  <2>1. n \in DOMAIN WireUnits /\ WireUnits[n] = u
    BY <1>2
  <2>2. distUnit(u) = n
    BY <1>2 DEF distUnit
  <2> HIDE DEF n
  <2> QED
    BY <1>1, <2>1, <2>2
<1>3. CASE ~\E n \in DOMAIN WireUnits : WireUnits[n] = u
  <2>1. u = "Unknown"
    BY <1>1, <1>3 DEF Units
  <2>2. distUnit(u) = 0
    BY <1>3 DEF distUnit
  <2> QED
    BY <2>1, <2>2
<1> QED
  BY <1>2, <1>3

\* A list reads of a packet the context its sender wrote.
LEMMA ContextBack == ASSUME NEW c \in Contexts PROVE SenderContext(AddContext(c)) = c
<1>1. /\ c = [axes |-> c.axes, mDistance |-> c.mDistance]
      /\ c.axes \in [Slots -> Directions \cup {"Unknown"}] /\ c.mDistance \in Units
  BY ContextAssumption DEF ContextAssumption
<1> DEFINE root == AddContext(c)
           axes == <<root.x_axis, root.y_axis, root.z_axis>>
<1>2. /\ root.x_axis = WireDirection(c.axes[0]) /\ root.y_axis = WireDirection(c.axes[1])
      /\ root.z_axis = WireDirection(c.axes[2]) /\ root.distance_unit = distUnit(c.mDistance)
  BY DEF AddContext
<1> HIDE DEF root
<1>3. axes[1] = root.x_axis /\ axes[2] = root.y_axis /\ axes[3] = root.z_axis
  OBVIOUS
<1> HIDE DEF axes
<1>4. \A i \in Slots : i = 0 \/ i = 1 \/ i = 2
  BY DEF Slots
<1>5. ASSUME NEW i \in Slots PROVE Direction(axes[i + 1]) = c.axes[i]
  <2>1. axes[i + 1] = WireDirection(c.axes[i])
    BY <1>2, <1>3, <1>4, <1>5
  <2> QED
    BY <1>1, <1>5, <2>1, DirectionBack
<1>6. [i \in Slots |-> Direction(axes[i + 1])] = c.axes
  BY <1>1, <1>5
<1>7. SenderContext(root) =
        [axes |-> [i \in Slots |-> Direction(axes[i + 1])],
         mDistance |-> IF root.distance_unit = 0 THEN "Unknown"
                       ELSE DistanceUnits[root.distance_unit]]
  BY DEF SenderContext, axes
<1>8. SenderContext(root) = [axes |-> c.axes, mDistance |-> c.mDistance]
  BY <1>1, <1>2, <1>6, <1>7, UnitBack
<1> QED
  BY <1>1, <1>8 DEF root

-----------------------------------------------------------------------------
(* The invariant.                                                          *)

\* The conversion is that between the two contexts, and both are valid.
CtxInv ==
    /\ mContext \in AllContexts /\ senderContext \in AllContexts
    /\ \A conv \in conversion :
          /\ conv = ComputeConversion(senderContext, mContext)
          /\ Valid(senderContext) /\ Valid(mContext)

\* The invariant holds initially.
LEMMA CtxInitial == CtxInit => CtxInv
BY DEF CtxInit, CtxInv, AllContexts

\* Parsing a packet's context keeps it, whether the context is valid or refused.
LEMMA CtxStep == CtxInv /\ [CtxNext]_ctxVars => CtxInv'
<1> SUFFICES ASSUME CtxInv, [CtxNext]_ctxVars PROVE CtxInv'
  OBVIOUS
<1>1. ASSUME NEW c \in Contexts, ParseContext(c) PROVE CtxInv'
  <2>1. SenderContext(AddContext(c)) = c
    BY <1>1, ContextBack
  <2>2. /\ senderContext' = c
        /\ \/ mContext' = c /\ conversion' = {}
           \/ /\ Valid(mContext) /\ mContext' = mContext
              /\ conversion' = {} \/ (Valid(c) /\ conversion' = {ComputeConversion(c, mContext)})
    BY <1>1, <2>1 DEF ParseContext
  <2>3. CASE mContext' = c /\ conversion' = {}
    BY <1>1, <2>2, <2>3 DEF CtxInv, AllContexts
  <2>4. CASE /\ Valid(mContext) /\ mContext' = mContext
             /\ conversion' = {} \/ (Valid(c) /\ conversion' = {ComputeConversion(c, mContext)})
    BY <1>1, <2>2, <2>4 DEF CtxInv, AllContexts
  <2> QED
    BY <2>2, <2>3, <2>4
<1>2. CASE UNCHANGED ctxVars
  BY <1>2 DEF CtxInv, ctxVars
<1> QED
  BY <1>1, <1>2 DEF CtxNext

-----------------------------------------------------------------------------
(* A conversion between two valid contexts.                                *)

\* In a valid context the three axes are three different ones, so each axis has one slot.
LEMMA ContextFacts ==
    ASSUME NEW c \in AllContexts, Valid(c)
    PROVE  /\ c.axes \in [Slots -> Directions] /\ c.mDistance \in DOMAIN Metres
           /\ Metres[c.mDistance] \in Nat \ {0}
           /\ \A i \in Slots : axisId(c.axes[i]) \in 1 .. 3
           /\ \A i, j \in Slots : axisId(c.axes[i]) = axisId(c.axes[j]) => i = j
           /\ \A id \in 1 .. 3 : \E i \in Slots : axisId(c.axes[i]) = id
<1>1. 0 \in Slots /\ 1 \in Slots /\ 2 \in Slots /\ "Unknown" \notin Directions
  BY DEF Slots, Directions
<1>2. c # NoContext
  BY <1>1 DEF Valid, NoContext
<1>3. c.axes \in [Slots -> Directions \cup {"Unknown"}] /\ c.mDistance \in DOMAIN Metres
  BY <1>2, ContextAssumption DEF ContextAssumption, AllContexts
<1>4. c.axes \in [Slots -> Directions]
  BY <1>3 DEF Valid
<1>5. Metres[c.mDistance] \in Nat \ {0}
  BY <1>3, ContextAssumption DEF ContextAssumption, Valid
<1>6. \A i \in Slots : axisId(c.axes[i]) \in 1 .. 3
  BY <1>4 DEF axisId, Directions
<1>7. \A i, j \in Slots : axisId(c.axes[i]) = axisId(c.axes[j]) => i = j
  BY DEF Valid
<1>8. ASSUME NEW id \in 1 .. 3 PROVE \E i \in Slots : axisId(c.axes[i]) = id
  <2>1. /\ axisId(c.axes[0]) # axisId(c.axes[1]) /\ axisId(c.axes[0]) # axisId(c.axes[2])
        /\ axisId(c.axes[1]) # axisId(c.axes[2])
    BY <1>1, <1>7
  <2>2. axisId(c.axes[0]) \in 1 .. 3 /\ axisId(c.axes[1]) \in 1 .. 3 /\ axisId(c.axes[2]) \in 1 .. 3
    BY <1>1, <1>6
  <2>3. axisId(c.axes[0]) = id \/ axisId(c.axes[1]) = id \/ axisId(c.axes[2]) = id
    BY <2>1, <2>2
  <2> QED
    BY <1>1, <2>3
<1> QED
  BY <1>3, <1>4, <1>5, <1>6, <1>7, <1>8

\* A signed permutation: every slot of the destination has a source of its own.
SignedPermutation(conv) ==
    /\ conv.axisRemap \in [Slots -> Slots] /\ conv.axisSign \in [Slots -> {-1, 1}]
    /\ \A i, j \in Slots : conv.axisRemap[i] = conv.axisRemap[j] => i = j

\* What computeConversion returns for two valid contexts: each target slot takes the source slot of
\* the same axis, with a sign.
LEMMA ConversionFacts ==
    ASSUME NEW from \in AllContexts, NEW to \in AllContexts, Valid(from), Valid(to)
    PROVE  LET conv == ComputeConversion(from, to)
           IN  /\ SignedPermutation(conv)
               /\ conv.unitScale[1] = Metres[from.mDistance]
               /\ conv.unitScale[2] = Metres[to.mDistance]
               /\ \A i \in Slots :
                     /\ conv.axisRemap[i] = Source(from, to, i)
                     /\ axisId(from.axes[conv.axisRemap[i]]) = axisId(to.axes[i])
                     /\ conv.axisSign[i] =
                           IF from.axes[conv.axisRemap[i]] = to.axes[i] THEN 1 ELSE -1
<1> DEFINE conv == ComputeConversion(from, to)
<1>1. /\ \A i \in Slots : axisId(to.axes[i]) \in 1 .. 3
      /\ \A i, j \in Slots : axisId(to.axes[i]) = axisId(to.axes[j]) => i = j
      /\ \A id \in 1 .. 3 : \E i \in Slots : axisId(from.axes[i]) = id
  BY ContextFacts
<1>2. ASSUME NEW i \in Slots
      PROVE  Source(from, to, i) \in Slots
             /\ axisId(from.axes[Source(from, to, i)]) = axisId(to.axes[i])
  <2>1. \E j \in Slots : axisId(from.axes[j]) = axisId(to.axes[i])
    BY <1>1, <1>2
  <2> QED
    BY <2>1 DEF Source
<1>3. /\ conv.axisRemap = [i \in Slots |-> Source(from, to, i)]
      /\ conv.axisSign = [i \in Slots |->
            IF from.axes[Source(from, to, i)] = to.axes[i] THEN 1 ELSE -1]
      /\ conv.unitScale[1] = Metres[from.mDistance] /\ conv.unitScale[2] = Metres[to.mDistance]
  BY DEF ComputeConversion
<1> HIDE DEF conv
<1>4. conv.axisRemap \in [Slots -> Slots] /\ \A i \in Slots : conv.axisRemap[i] = Source(from, to, i)
  BY <1>2, <1>3
<1>5. /\ conv.axisSign \in [Slots -> {-1, 1}]
      /\ \A i \in Slots :
            conv.axisSign[i] = IF from.axes[conv.axisRemap[i]] = to.axes[i] THEN 1 ELSE -1
  BY <1>3, <1>4
<1>6. \A i, j \in Slots : conv.axisRemap[i] = conv.axisRemap[j] => i = j
  BY <1>1, <1>2, <1>4
<1>7. SignedPermutation(conv)
  BY <1>4, <1>5, <1>6 DEF SignedPermutation
<1>8. \A i \in Slots : axisId(from.axes[conv.axisRemap[i]]) = axisId(to.axes[i])
  BY <1>2, <1>4
<1> QED
  BY <1>3, <1>4, <1>5, <1>7, <1>8 DEF conv

-----------------------------------------------------------------------------
(* Points.                                                                 *)

\* Dividing a multiple gives it back.
LEMMA DivExact == ASSUME NEW k \in Int, NEW m \in Nat \ {0} PROVE (k * m) \div m = k
OBVIOUS

\* Multiplying an exact quotient gives it back.
LEMMA DivBack == ASSUME NEW n \in Int, NEW m \in Nat \ {0}, n % m = 0 PROVE (n \div m) * m = n
OBVIOUS

DivSign(n, m, s) ==
    n \div m \in Int /\ (n \div m) * m = n /\ (s * n) \div m = s * (n \div m)

\* An exact quotient keeps a sign.
LEMMA DivSigned ==
    ASSUME NEW n \in Int, NEW m \in Nat \ {0}, n % m = 0, NEW s \in {-1, 1}
    PROVE  DivSign(n, m, s)
<1>1. n \div m \in Int /\ (n \div m) * m = n
  BY DivBack
<1> DEFINE k == n \div m
<1>2. k \in Int /\ k * m = n /\ s \in Int
  BY <1>1
<1> HIDE DEF k
<1>3. s * n = (s * k) * m
  BY <1>2
<1>4. s * k \in Int
  BY <1>2
<1>5. (s * n) \div m = s * k
  BY <1>3, <1>4, DivExact
<1> QED
  BY <1>1, <1>5 DEF k, DivSign

\* The two directions of an axis point opposite ways.
LEMMA SignOfAxis ==
    ASSUME NEW d \in Directions, NEW e \in Directions, axisId(d) = axisId(e)
    PROVE  Sign(d) = Sign(e) * (IF d = e THEN 1 ELSE -1) /\ Sign(d) \in {-1, 1}
BY DEF Directions, axisId, Sign

\* What a converted point is, slot by slot.
LEMMA MovedFacts ==
    ASSUME NEW conv, SignedPermutation(conv), NEW p \in [Slots -> Int],
           conv.unitScale[1] \in Nat, conv.unitScale[2] \in Nat \ {0},
           \A j \in Slots : (p[j] * conv.unitScale[1]) % conv.unitScale[2] = 0,
           NEW i \in Slots
    PROVE  LET h == Scaled(conv, p)[conv.axisRemap[i]]
           IN  /\ h \in Int
               /\ h * conv.unitScale[2] = p[conv.axisRemap[i]] * conv.unitScale[1]
               /\ ConvertTranslation(conv, p)[i] = conv.axisSign[i] * h
<1> DEFINE r == conv.axisRemap[i]
           s == conv.axisSign[i]
           a == conv.unitScale[1]
           b == conv.unitScale[2]
<1>1. r \in Slots /\ s \in {-1, 1} /\ p[r] \in Int /\ a \in Nat /\ b \in Nat \ {0}
  BY DEF SignedPermutation
<1>2. (p[r] * a) % b = 0
  BY <1>1
<1>3. Scaled(conv, p)[r] = (p[r] * a) \div b
  BY <1>1 DEF Scaled
<1>4. ConvertTranslation(conv, p)[i] = ((p[r] * s) * a) \div b
  BY DEF ConvertTranslation, Scaled, Turned
<1> HIDE DEF r, s, a, b
<1> DEFINE n == p[r] * a
<1>5. n \in Int /\ n % b = 0
  BY <1>1, <1>2
<1>6. (p[r] * s) * a = s * n
  BY <1>1
<1> HIDE DEF n
<1>7. n \div b \in Int /\ (n \div b) * b = n /\ (s * n) \div b = s * (n \div b)
  <2>1. DivSign(n, b, s)
    BY <1>1, <1>5, DivSigned
  <2> QED
    BY <2>1 DEF DivSign
<1>8. Scaled(conv, p)[r] = n \div b /\ ConvertTranslation(conv, p)[i] = s * (n \div b)
  BY <1>3, <1>4, <1>6, <1>7 DEF n
<1> QED
  BY <1>7, <1>8 DEF r, s, a, b, n

\* A row of the basis picks the source of its slot, with its sign.
LEMMA RowPicks ==
    ASSUME NEW conv, SignedPermutation(conv), NEW i \in Slots, NEW x \in [Slots -> Int]
    PROVE  LET b == Basis(conv)[i]
           IN  /\ b[0] * x[0] + b[1] * x[1] + b[2] * x[2] = conv.axisSign[i] * x[conv.axisRemap[i]]
               /\ x[0] * b[0] + x[1] * b[1] + x[2] * b[2] = conv.axisSign[i] * x[conv.axisRemap[i]]
<1> DEFINE s == conv.axisSign[i]
           b == Basis(conv)[i]
<1>1. 0 \in Slots /\ 1 \in Slots /\ 2 \in Slots /\ \A j \in Slots : j = 0 \/ j = 1 \/ j = 2
  BY DEF Slots
<1>2. conv.axisRemap[i] \in Slots /\ s \in Int /\ x[0] \in Int /\ x[1] \in Int /\ x[2] \in Int
  BY <1>1 DEF SignedPermutation
<1>3. \A j \in Slots : b[j] = IF j = conv.axisRemap[i] THEN s ELSE 0
  BY DEF Basis
<1> HIDE DEF s, b
<1>4. CASE conv.axisRemap[i] = 0
  <2>1. b[0] = s /\ b[1] = 0 /\ b[2] = 0
    BY <1>1, <1>3, <1>4
  <2>2. s * x[0] + 0 * x[1] + 0 * x[2] = s * x[0] /\ x[0] * s + x[1] * 0 + x[2] * 0 = s * x[0]
    BY <1>2
  <2> QED
    BY <1>4, <2>1, <2>2 DEF s, b
<1>5. CASE conv.axisRemap[i] = 1
  <2>1. b[0] = 0 /\ b[1] = s /\ b[2] = 0
    BY <1>1, <1>3, <1>5
  <2>2. 0 * x[0] + s * x[1] + 0 * x[2] = s * x[1] /\ x[0] * 0 + x[1] * s + x[2] * 0 = s * x[1]
    BY <1>2
  <2> QED
    BY <1>5, <2>1, <2>2 DEF s, b
<1>6. CASE conv.axisRemap[i] = 2
  <2>1. b[0] = 0 /\ b[1] = 0 /\ b[2] = s
    BY <1>1, <1>3, <1>6
  <2>2. 0 * x[0] + 0 * x[1] + s * x[2] = s * x[2] /\ x[0] * 0 + x[1] * 0 + x[2] * s = s * x[2]
    BY <1>2
  <2> QED
    BY <1>6, <2>1, <2>2 DEF s, b
<1> QED
  BY <1>1, <1>2, <1>4, <1>5, <1>6

\* In a matrix a translation is moved as by itself.
LEMMA MovedInMatrix ==
    ASSUME NEW conv, SignedPermutation(conv), NEW p \in [Slots -> Int],
           conv.unitScale[1] \in Nat, conv.unitScale[2] \in Nat \ {0},
           \A j \in Slots : (p[j] * conv.unitScale[1]) % conv.unitScale[2] = 0,
           NEW m
    PROVE  ConvertMatrix(conv, [r |-> m, t |-> p]).t = ConvertTranslation(conv, p)
<1> DEFINE h == Scaled(conv, p)
<1>1. h \in [Slots -> Int]
  <2>1. ASSUME NEW j \in Slots PROVE h[j] \in Int
    <3>1. p[j] * conv.unitScale[1] \in Int
      BY <2>1
    <3>2. DivSign(p[j] * conv.unitScale[1], conv.unitScale[2], 1)
      BY <2>1, <3>1, DivSigned
    <3> QED
      BY <2>1, <3>2 DEF Scaled, DivSign
  <2> QED
    BY <2>1 DEF Scaled
<1>2. ASSUME NEW i \in Slots PROVE Apply(Basis(conv), h)[i] = ConvertTranslation(conv, p)[i]
  <2>1. ConvertTranslation(conv, p)[i] = conv.axisSign[i] * h[conv.axisRemap[i]]
    BY MovedFacts
  <2>2. Apply(Basis(conv), h)[i] =
          Basis(conv)[i][0] * h[0] + Basis(conv)[i][1] * h[1] + Basis(conv)[i][2] * h[2]
    BY DEF Apply
  <2> HIDE DEF h
  <2> QED
    BY <1>1, <2>1, <2>2, RowPicks
<1>3. ConvertMatrix(conv, [r |-> m, t |-> p]).t = Apply(Basis(conv), h)
  BY DEF ConvertMatrix
<1>4. Apply(Basis(conv), h) = ConvertTranslation(conv, p)
  BY <1>2 DEF Apply, ConvertTranslation, Scaled
<1> QED
  BY <1>3, <1>4

\* A converted point lies where it lay.
LEMMA PointKept ==
    ASSUME NEW from \in AllContexts, NEW to \in AllContexts, Valid(from), Valid(to),
           NEW p \in Points
    PROVE  LET conv == ComputeConversion(from, to)
               moved == ConvertTranslation(conv, p)
           IN  /\ Place(to, moved) = Place(from, p)
               /\ \A m : ConvertMatrix(conv, [r |-> m, t |-> p]).t = moved
<1> DEFINE conv == ComputeConversion(from, to)
           moved == ConvertTranslation(conv, p)
           a == Metres[from.mDistance]
           b == Metres[to.mDistance]
<1>1. /\ SignedPermutation(conv) /\ conv.unitScale[1] = a /\ conv.unitScale[2] = b
      /\ \A i \in Slots :
            /\ conv.axisRemap[i] = Source(from, to, i)
            /\ axisId(from.axes[conv.axisRemap[i]]) = axisId(to.axes[i])
            /\ conv.axisSign[i] = IF from.axes[conv.axisRemap[i]] = to.axes[i] THEN 1 ELSE -1
  BY ConversionFacts
<1>2. /\ from.axes \in [Slots -> Directions] /\ to.axes \in [Slots -> Directions]
      /\ a \in Nat \ {0} /\ b \in Nat \ {0}
      /\ from.mDistance \in DOMAIN Metres /\ to.mDistance \in DOMAIN Metres
      /\ \A id \in 1 .. 3 : \E i \in Slots : axisId(to.axes[i]) = id
  BY ContextFacts
<1>3. p \in [Slots -> Int] /\ \A j \in Slots : (p[j] * a) % b = 0
  BY <1>2, ContextAssumption DEF ContextAssumption
<1> HIDE DEF conv, a, b
<1>4. \A m : ConvertMatrix(conv, [r |-> m, t |-> p]).t = moved
  BY <1>1, <1>2, <1>3, MovedInMatrix
<1>5. ASSUME NEW id \in 1 .. 3 PROVE Place(to, moved)[id] = Place(from, p)[id]
  <2> DEFINE i == Slot(to, id)
             r == conv.axisRemap[i]
             s == conv.axisSign[i]
             h == Scaled(conv, p)[r]
  <2>1. i \in Slots /\ axisId(to.axes[i]) = id
    BY <1>2, <1>5 DEF Slot
  <2>2. Slot(from, id) = Source(from, to, i)
    BY <2>1 DEF Slot, Source
  <2> HIDE DEF i
  <2>3. Slot(from, id) = r
    BY <1>1, <2>1, <2>2
  <2>4. r \in Slots /\ s \in {-1, 1}
    BY <1>1, <2>1 DEF SignedPermutation
  <2>5. h \in Int /\ h * b = p[r] * a /\ moved[i] = s * h
    BY <1>1, <1>2, <1>3, <2>1, MovedFacts
  <2>6. Sign(from.axes[r]) = Sign(to.axes[i]) * s /\ Sign(from.axes[r]) \in {-1, 1}
    BY <1>1, <1>2, <2>1, <2>4, SignOfAxis
  <2>7. Sign(to.axes[i]) \in {-1, 1}
    BY DEF Sign
  <2>8. Place(to, moved)[id] = (Sign(to.axes[i]) * moved[i]) * b
    BY DEF Place, Meant, i, b
  <2>9. Place(from, p)[id] = (Sign(from.axes[r]) * p[r]) * a
    BY <2>3 DEF Place, Meant, a
  <2>10. p[r] \in Int /\ a \in Int /\ b \in Int
    BY <1>2, <1>3, <2>4
  <2> HIDE DEF r, s, h, moved
  <2> DEFINE e == Sign(to.axes[i])
  <2>11. e \in {-1, 1}
    BY <2>7
  <2> HIDE DEF e
  <2>12. (e * (s * h)) * b = (e * s) * (h * b)
    BY <2>4, <2>5, <2>10, <2>11
  <2>13. ((e * s) * p[r]) * a = (e * s) * (p[r] * a)
    BY <2>4, <2>10, <2>11
  <2> QED
    BY <2>5, <2>6, <2>8, <2>9, <2>12, <2>13 DEF e
<1>6. Place(to, moved) = Place(from, p)
  BY <1>5 DEF Place
<1> QED
  BY <1>4, <1>6 DEF conv

-----------------------------------------------------------------------------
(* Rotations.                                                              *)

Distinct(i, j, k) == i # j /\ i # k /\ j # k

\* Do the axes i and j follow each other?
Turn(i, j) == IF j = i + 1 \/ (i = 2 /\ j = 0) THEN 1 ELSE -1

IntQuaternion(q) == q.w \in Int /\ q.v \in [Slots -> Int]

\* There are three slots.
LEMMA SlotFacts ==
    /\ 0 \in Slots /\ 1 \in Slots /\ 2 \in Slots /\ Slots \subseteq Int
    /\ \A i \in Slots : i = 0 \/ i = 1 \/ i = 2
BY DEF Slots

\* An entry of the matrix of a quaternion, on the diagonal and beside it.
LEMMA Entries ==
    ASSUME NEW q, IntQuaternion(q), NEW i \in Slots, NEW j \in Slots, NEW k \in Slots,
           Distinct(i, j, k)
    PROVE  /\ Matrix(q)[i][i] = q.w * q.w + q.v[i] * q.v[i] - q.v[j] * q.v[j] - q.v[k] * q.v[k]
           /\ Matrix(q)[i][j] = 2 * (q.v[i] * q.v[j] - Turn(i, j) * (q.w * q.v[k]))
<1> DEFINE x == q.v[0]
           y == q.v[1]
           z == q.v[2]
           w == q.w
<1>1. x \in Int /\ y \in Int /\ z \in Int /\ w \in Int
  BY SlotFacts DEF IntQuaternion
<1>2. /\ Matrix(q)[0][0] = w*w + x*x - y*y - z*z
      /\ Matrix(q)[0][1] = 2 * (x*y - w*z)
      /\ Matrix(q)[0][2] = 2 * (x*z + w*y)
  BY SlotFacts DEF Matrix
<1>3. /\ Matrix(q)[1][0] = 2 * (x*y + w*z)
      /\ Matrix(q)[1][1] = w*w - x*x + y*y - z*z
      /\ Matrix(q)[1][2] = 2 * (y*z - w*x)
  BY SlotFacts DEF Matrix
<1>4. /\ Matrix(q)[2][0] = 2 * (x*z - w*y)
      /\ Matrix(q)[2][1] = 2 * (y*z + w*x)
      /\ Matrix(q)[2][2] = w*w - x*x - y*y + z*z
  BY SlotFacts DEF Matrix
<1>5. i = 0 \/ i = 1 \/ i = 2
  BY SlotFacts
<1>6. CASE i = 0
  <2>1. (j = 1 /\ k = 2) \/ (j = 2 /\ k = 1)
    BY <1>6, SlotFacts DEF Distinct
  <2>2. CASE j = 1 /\ k = 2
    BY <1>1, <1>2, <1>6, <2>2, SMTT(30) DEF Turn
  <2>3. CASE j = 2 /\ k = 1
    BY <1>1, <1>2, <1>6, <2>3, SMTT(30) DEF Turn
  <2> QED
    BY <2>1, <2>2, <2>3
<1>7. CASE i = 1
  <2>1. (j = 0 /\ k = 2) \/ (j = 2 /\ k = 0)
    BY <1>7, SlotFacts DEF Distinct
  <2>2. CASE j = 0 /\ k = 2
    BY <1>1, <1>3, <1>7, <2>2, SMTT(30) DEF Turn
  <2>3. CASE j = 2 /\ k = 0
    BY <1>1, <1>3, <1>7, <2>3, SMTT(30) DEF Turn
  <2> QED
    BY <2>1, <2>2, <2>3
<1>8. CASE i = 2
  <2>1. (j = 0 /\ k = 1) \/ (j = 1 /\ k = 0)
    BY <1>8, SlotFacts DEF Distinct
  <2>2. CASE j = 0 /\ k = 1
    BY <1>1, <1>4, <1>8, <2>2, SMTT(30) DEF Turn
  <2>3. CASE j = 1 /\ k = 0
    BY <1>1, <1>4, <1>8, <2>3, SMTT(30) DEF Turn
  <2> QED
    BY <2>1, <2>2, <2>3
<1> QED
  BY <1>5, <1>6, <1>7, <1>8

\* There is a third axis to any two, and two others to any one.
LEMMA Thirds ==
    /\ \A i, j \in Slots : i # j => \E k \in Slots : Distinct(i, j, k)
    /\ \A i \in Slots : \E j, k \in Slots : Distinct(i, j, k)
<1>1. ASSUME NEW i \in Slots, NEW j \in Slots, i # j PROVE \E k \in Slots : Distinct(i, j, k)
  <2>1. 3 - i - j \in Slots /\ Distinct(i, j, 3 - i - j)
    BY <1>1, SlotFacts DEF Distinct
  <2> QED
    BY <2>1
<1>2. \A i \in Slots : \E j \in Slots : i # j
  BY SlotFacts
<1> QED
  BY <1>1, <1>2

PermSign(conv) == Turn(conv.axisRemap[0], conv.axisRemap[1])

\* A permutation keeps or turns the order of every two axes, as Flips finds by
\* counting inversions.
LEMMA PermutationTurns ==
    ASSUME NEW conv, SignedPermutation(conv)
    PROVE  /\ PermSign(conv) \in {-1, 1}
           /\ \A i, j, k \in Slots : Distinct(i, j, k) =>
                 /\ Distinct(conv.axisRemap[i], conv.axisRemap[j], conv.axisRemap[k])
                 /\ Turn(conv.axisRemap[i], conv.axisRemap[j]) = PermSign(conv) * Turn(i, j)
           /\ Flips(conv) <=>
                 PermSign(conv) * conv.axisSign[0] * conv.axisSign[1] * conv.axisSign[2] < 0
<1> DEFINE r0 == conv.axisRemap[0]
           r1 == conv.axisRemap[1]
           r2 == conv.axisRemap[2]
<1>1. r0 \in Slots /\ r1 \in Slots /\ r2 \in Slots /\ r0 # r1 /\ r0 # r2 /\ r1 # r2
  BY SlotFacts DEF SignedPermutation
<1>2. /\ r0 = 0 \/ r0 = 1 \/ r0 = 2
      /\ r1 = 0 \/ r1 = 1 \/ r1 = 2
      /\ r2 = 0 \/ r2 = 1 \/ r2 = 2
  BY <1>1, SlotFacts
<1> DEFINE inv(a, b) == IF a > b THEN 1 ELSE 0
           perm == IF (inv(r0, r1) + inv(r0, r2) + inv(r1, r2)) % 2 = 0 THEN 1 ELSE -1
<1>3. Flips(conv) <=> perm * conv.axisSign[0] * conv.axisSign[1] * conv.axisSign[2] < 0
  BY DEF Flips
<1>4. \A i, j, k \in Slots : Distinct(i, j, k) => Distinct(conv.axisRemap[i], conv.axisRemap[j], conv.axisRemap[k])
  BY DEF SignedPermutation, Distinct
<1> HIDE DEF r0, r1, r2
<1>5. perm = Turn(r0, r1) /\ Turn(r0, r1) \in {-1, 1}
  BY <1>1, <1>2 DEF Turn
<1>6. /\ Turn(r1, r0) = -Turn(r0, r1) /\ Turn(r2, r1) = -Turn(r0, r1) /\ Turn(r0, r2) = -Turn(r0, r1)
      /\ Turn(r1, r2) = Turn(r0, r1) /\ Turn(r2, r0) = Turn(r0, r1)
  BY <1>1, <1>2 DEF Turn
<1>7. ASSUME NEW i \in Slots, NEW j \in Slots, i # j
      PROVE  Turn(conv.axisRemap[i], conv.axisRemap[j]) = Turn(r0, r1) * Turn(i, j)
  <2>1. Turn(r0, r1) \in Int
    BY <1>5
  <2>2. \/ i = 0 /\ j = 1
        \/ i = 1 /\ j = 2
        \/ i = 2 /\ j = 0
        \/ i = 1 /\ j = 0
        \/ i = 2 /\ j = 1
        \/ i = 0 /\ j = 2
    BY <1>7, SlotFacts
  <2>3. Turn(0, 1) = 1 /\ Turn(1, 2) = 1 /\ Turn(2, 0) = 1
        /\ Turn(1, 0) = -1 /\ Turn(2, 1) = -1 /\ Turn(0, 2) = -1
    BY DEF Turn
  <2> DEFINE t == Turn(r0, r1)
  <2>4. t = t * 1 /\ -t = t * (-1)
    BY <2>1
  <2>5. CASE i = 0 /\ j = 1
    BY <2>3, <2>4, <2>5 DEF r0, r1
  <2>6. CASE i = 1 /\ j = 2
    BY <1>6, <2>3, <2>4, <2>6 DEF r0, r1, r2
  <2>7. CASE i = 2 /\ j = 0
    BY <1>6, <2>3, <2>4, <2>7 DEF r0, r1, r2
  <2>8. CASE i = 1 /\ j = 0
    BY <1>6, <2>3, <2>4, <2>8 DEF r0, r1
  <2>9. CASE i = 2 /\ j = 1
    BY <1>6, <2>3, <2>4, <2>9 DEF r0, r1, r2
  <2>10. CASE i = 0 /\ j = 2
    BY <1>6, <2>3, <2>4, <2>10 DEF r0, r1, r2
  <2> QED
    BY <2>2, <2>5, <2>6, <2>7, <2>8, <2>9, <2>10
<1> QED
  BY <1>3, <1>4, <1>5, <1>7 DEF PermSign, Distinct, r0, r1

\* What the converted quaternion is.
LEMMA TurnedFacts ==
    ASSUME NEW conv, SignedPermutation(conv), NEW q, IntQuaternion(q),
           NEW i \in Slots, NEW j \in Slots, NEW k \in Slots, Distinct(i, j, k)
    PROVE  LET c == ConvertRotation(conv, q)
               s == conv.axisSign
           IN  /\ IntQuaternion(c) /\ c.v[i] = q.v[conv.axisRemap[i]] * s[i]
               /\ c.w = PermSign(conv) * (s[i] * s[j] * s[k]) * q.w
<1> DEFINE s == conv.axisSign
           e == PermSign(conv)
<1>1. /\ s[0] \in {-1, 1} /\ s[1] \in {-1, 1} /\ s[2] \in {-1, 1} /\ e \in {-1, 1}
      /\ Flips(conv) <=> e * s[0] * s[1] * s[2] < 0
      /\ q.w \in Int /\ q.v \in [Slots -> Int]
  BY SlotFacts, PermutationTurns DEF SignedPermutation, IntQuaternion
<1>2. /\ ConvertRotation(conv, q).w = IF Flips(conv) THEN -q.w ELSE q.w
      /\ ConvertRotation(conv, q).v = [n \in Slots |-> q.v[conv.axisRemap[n]] * s[n]]
  BY DEF ConvertRotation, Turned
<1>3. \A n \in Slots : q.v[conv.axisRemap[n]] * s[n] \in Int
  <2> SUFFICES ASSUME NEW n \in Slots PROVE q.v[conv.axisRemap[n]] * s[n] \in Int
    OBVIOUS
  <2>1. q.v[conv.axisRemap[n]] \in Int /\ s[n] \in Int
    BY <1>1 DEF SignedPermutation
  <2> QED
    BY <2>1
<1> HIDE DEF s, e
<1>4. s[i] * s[j] * s[k] = s[0] * s[1] * s[2]
  <2>1. s[0] \in Int /\ s[1] \in Int /\ s[2] \in Int
    BY <1>1
  <2> QED
    BY <2>1, SlotFacts DEF Distinct
<1>5. ConvertRotation(conv, q).w = e * (s[0] * s[1] * s[2]) * q.w
  BY <1>1, <1>2
<1>6. IntQuaternion(ConvertRotation(conv, q))
  BY <1>1, <1>2, <1>3 DEF IntQuaternion
<1> QED
  BY <1>2, <1>4, <1>5, <1>6 DEF s, e

SignsCancel(a, b, c, e, t, x, y, z, w) ==
    /\ b * (a * (2 * (x * y - (e * t) * (w * z))))
         = 2 * ((x * a) * (y * b) - t * ((e * (a * b * c) * w) * (z * c)))
    /\ (e * (a * b * c) * w) * (e * (a * b * c) * w) = w * w

\* The products of signs that the two directions of a conversion multiply by cancel.
LEMMA SignsOut ==
    ASSUME NEW a \in {-1, 1}, NEW b \in {-1, 1}, NEW c \in {-1, 1}, NEW e \in {-1, 1},
           NEW t \in {-1, 1}, NEW x \in Int, NEW y \in Int, NEW z \in Int, NEW w \in Int
    PROVE  SignsCancel(a, b, c, e, t, x, y, z, w)
BY DEF SignsCancel

SignCancels(a, x) == (x * a) * (x * a) = x * x /\ a * (a * x) = x

\* A sign applied twice cancels.
LEMMA SignOut == ASSUME NEW a \in {-1, 1}, NEW x \in Int PROVE SignCancels(a, x)
BY DEF SignCancels

\* A rotation converted as a quaternion is the same as converted in a matrix.
LEMMA RotationKept ==
    ASSUME NEW conv, SignedPermutation(conv), NEW q, IntQuaternion(q), NEW t
    PROVE  ConvertMatrix(conv, [r |-> Matrix(q), t |-> t]).r = Matrix(ConvertRotation(conv, q))
<1> DEFINE m == Matrix(q)
           b == Basis(conv)
           r == conv.axisRemap
           s == conv.axisSign
           c == ConvertRotation(conv, q)
           half == Times(b, m)
           whole == Times(half, Transpose(b))
<1>1. r \in [Slots -> Slots] /\ s \in [Slots -> {-1, 1}]
  BY DEF SignedPermutation
<1>2. q.w \in Int /\ \A i \in Slots : q.v[i] \in Int
  BY DEF IntQuaternion
<1>3. m \in [Slots -> [Slots -> Int]]
  <2>1. ASSUME NEW i \in Slots, NEW j \in Slots PROVE m[i][j] \in Int
    <3>1. CASE i = j
      <4>1. PICK u \in Slots, k \in Slots : Distinct(i, u, k)
        BY Thirds
      <4>2. m[i][i] = q.w * q.w + q.v[i] * q.v[i] - q.v[u] * q.v[u] - q.v[k] * q.v[k]
        BY <4>1, Entries
      <4>3. q.w \in Int /\ q.v[i] \in Int /\ q.v[u] \in Int /\ q.v[k] \in Int
        BY <1>2
      <4> QED
        BY <3>1, <4>2, <4>3
    <3>2. CASE i # j
      <4>1. PICK k \in Slots : Distinct(i, j, k)
        BY <3>2, Thirds
      <4>2. m[i][j] = 2 * (q.v[i] * q.v[j] - Turn(i, j) * (q.w * q.v[k]))
        BY <4>1, Entries
      <4>3. q.w \in Int /\ q.v[i] \in Int /\ q.v[j] \in Int /\ q.v[k] \in Int /\ Turn(i, j) \in Int
        BY <1>2 DEF Turn
      <4> QED
        BY <4>2, <4>3
    <3> QED
      BY <3>1, <3>2
  <2> QED
    BY <2>1 DEF Matrix
<1>4. ASSUME NEW i \in Slots, NEW j \in Slots PROVE whole[i][j] = s[j] * (s[i] * m[r[i]][r[j]])
  <2>1. ASSUME NEW n \in Slots PROVE half[i][n] = s[i] * m[r[i]][n]
    <3> DEFINE x == [k \in Slots |-> m[k][n]]
    <3>1. x \in [Slots -> Int]
      BY <1>3, <2>1
    <3>2. half[i][n] = b[i][0] * m[0][n] + b[i][1] * m[1][n] + b[i][2] * m[2][n]
      BY <1>4, <2>1 DEF Times
    <3>3. x[0] = m[0][n] /\ x[1] = m[1][n] /\ x[2] = m[2][n] /\ x[r[i]] = m[r[i]][n]
      BY SlotFacts, <1>1, <1>4
    <3> HIDE DEF x, m, half
    <3>4. b[i][0] * x[0] + b[i][1] * x[1] + b[i][2] * x[2] = s[i] * x[r[i]]
      BY <1>4, <3>1, RowPicks
    <3> QED
      BY <3>2, <3>3, <3>4
  <2> DEFINE x == [k \in Slots |-> half[i][k]]
  <2>2. x \in [Slots -> Int]
    <3>1. \A n \in Slots : m[r[i]][n] \in Int /\ s[i] \in Int
      BY <1>1, <1>3, <1>4
    <3>2. \A n \in Slots : s[i] * m[r[i]][n] \in Int
      BY <3>1
    <3> HIDE DEF m, half
    <3> QED
      BY <2>1, <3>2
  <2>3. whole[i][j] = x[0] * b[j][0] + x[1] * b[j][1] + x[2] * b[j][2]
    BY <1>4, SlotFacts DEF Times, Transpose
  <2>4. x[r[j]] = s[i] * m[r[i]][r[j]]
    BY <1>1, <1>4, <2>1
  <2> HIDE DEF x, whole
  <2>5. x[0] * b[j][0] + x[1] * b[j][1] + x[2] * b[j][2] = s[j] * x[r[j]]
    BY <1>4, <2>2, RowPicks
  <2> QED
    BY <2>3, <2>4, <2>5
<1>5. ASSUME NEW i \in Slots, NEW j \in Slots PROVE whole[i][j] = Matrix(c)[i][j]
  <2> DEFINE x == q.v[r[i]]
             w == q.w
             e == PermSign(conv)
  <2> HIDE DEF m, whole, c
  <2>0. r[i] \in Slots /\ r[j] \in Slots /\ x \in Int /\ w \in Int /\ e \in {-1, 1}
        /\ s[i] \in {-1, 1} /\ s[j] \in {-1, 1}
    BY <1>1, <1>2, <1>5, PermutationTurns
  <2>1. CASE i = j
    <3>1. PICK u \in Slots, k \in Slots : Distinct(i, u, k)
      BY <1>5, Thirds
    <3>2. Distinct(r[i], r[u], r[k])
      BY <1>5, <3>1, PermutationTurns
    <3> DEFINE y == q.v[r[u]]
               z == q.v[r[k]]
    <3>3. y \in Int /\ z \in Int /\ s[u] \in {-1, 1} /\ s[k] \in {-1, 1} /\ r[u] \in Slots /\ r[k] \in Slots
      BY <1>1, <1>2, <3>1
    <3>4. m[r[i]][r[i]] = w * w + x * x - y * y - z * z
      BY <2>0, <3>2, <3>3, Entries DEF m
    <3>5. Distinct(u, i, k) /\ Distinct(k, i, u)
      BY <3>1 DEF Distinct
    <3>6. /\ IntQuaternion(c) /\ c.v[i] = x * s[i] /\ c.v[u] = y * s[u] /\ c.v[k] = z * s[k]
          /\ c.w = e * (s[i] * s[u] * s[k]) * w
      BY <1>5, <3>1, <3>5, TurnedFacts DEF c
    <3>7. Matrix(c)[i][i] = c.w * c.w + c.v[i] * c.v[i] - c.v[u] * c.v[u] - c.v[k] * c.v[k]
      BY <1>5, <3>1, <3>6, Entries
    <3> HIDE DEF x, y, z, w, e, s
    <3>8. c.w * c.w = w * w /\ c.v[i] * c.v[i] = x * x /\ c.v[u] * c.v[u] = y * y /\ c.v[k] * c.v[k] = z * z
      <4>1. /\ SignsCancel(s[i], s[u], s[k], e, 1, x, y, z, w)
            /\ SignCancels(s[i], x) /\ SignCancels(s[u], y) /\ SignCancels(s[k], z)
        BY <2>0, <3>3, SignsOut, SignOut
      <4> QED
        BY <3>6, <4>1 DEF SignsCancel, SignCancels
    <3>9. Matrix(c)[i][i] = m[r[i]][r[i]]
      BY <3>4, <3>7, <3>8
    <3>10. m[r[i]][r[i]] \in Int
      BY <1>3, <2>0
    <3>11. s[i] * (s[i] * m[r[i]][r[i]]) = m[r[i]][r[i]]
      BY <2>0, <3>10, SignOut DEF SignCancels
    <3> QED
      BY <1>4, <1>5, <2>1, <3>9, <3>11
  <2>2. CASE i # j
    <3>1. PICK k \in Slots : Distinct(i, j, k)
      BY <1>5, <2>2, Thirds
    <3>2. Distinct(r[i], r[j], r[k]) /\ Turn(r[i], r[j]) = e * Turn(i, j)
      BY <1>5, <3>1, PermutationTurns
    <3> DEFINE y == q.v[r[j]]
               z == q.v[r[k]]
               d == Turn(i, j)
    <3>3. y \in Int /\ z \in Int /\ s[k] \in {-1, 1} /\ r[k] \in Slots /\ d \in {-1, 1}
      BY <1>1, <1>2, <2>0, <3>1 DEF Turn
    <3>4. m[r[i]][r[j]] = 2 * (x * y - (e * d) * (w * z))
      BY <2>0, <3>2, <3>3, Entries DEF m
    <3>5. Distinct(j, i, k) /\ Distinct(k, i, j)
      BY <3>1 DEF Distinct
    <3>6. /\ IntQuaternion(c) /\ c.v[i] = x * s[i] /\ c.v[j] = y * s[j] /\ c.v[k] = z * s[k]
          /\ c.w = e * (s[i] * s[j] * s[k]) * w
      BY <1>5, <3>1, <3>5, TurnedFacts DEF c
    <3>7. Matrix(c)[i][j] = 2 * (c.v[i] * c.v[j] - d * (c.w * c.v[k]))
      BY <1>5, <3>1, <3>6, Entries
    <3> HIDE DEF x, y, z, w, e, s, d
    <3>8. s[j] * (s[i] * (2 * (x * y - (e * d) * (w * z))))
            = 2 * ((x * s[i]) * (y * s[j]) - d * ((e * (s[i] * s[j] * s[k]) * w) * (z * s[k])))
      <4>1. SignsCancel(s[i], s[j], s[k], e, d, x, y, z, w)
        BY <2>0, <3>3, SignsOut
      <4> QED
        BY <4>1 DEF SignsCancel
    <3> QED
      BY <1>4, <1>5, <3>4, <3>6, <3>7, <3>8
  <2> QED
    BY <2>1, <2>2
<1>6. whole = Matrix(c)
  <2>1. whole = [i \in Slots |-> [j \in Slots |-> whole[i][j]]]
    BY DEF Times
  <2>2. Matrix(c) = [i \in Slots |-> [j \in Slots |-> Matrix(c)[i][j]]]
    BY DEF Matrix
  <2> HIDE DEF whole, c
  <2>3. [i \in Slots |-> [j \in Slots |-> whole[i][j]]] = [i \in Slots |-> [j \in Slots |-> Matrix(c)[i][j]]]
    BY <1>5
  <2> QED
    BY <2>1, <2>2, <2>3
<1> QED
  BY <1>6 DEF ConvertMatrix

-----------------------------------------------------------------------------
(* The properties.                                                         *)

\* Whatever contexts list and sender have: a converted point lies where it lay, in
\* a matrix as by itself, and a rotation converted as a quaternion is the one
\* converted in a matrix.
THEOREM PoseKept == CtxSpec => []SamePose
<1>1. CtxInv => SamePose
  <2> SUFFICES ASSUME CtxInv, NEW conv \in conversion
               PROVE  /\ \A p \in Points : LET moved == ConvertTranslation(conv, p)
                            IN  /\ Place(mContext, moved) = Place(senderContext, p)
                                /\ ConvertMatrix(conv, [r |-> Basis(conv), t |-> p]).t = moved
                      /\ \A q \in Rotations :
                            ConvertMatrix(conv, [r |-> Matrix(q), t |-> [i \in Slots |-> 0]]).r
                              = Matrix(ConvertRotation(conv, q))
    BY DEF SamePose
  <2>1. /\ mContext \in AllContexts /\ senderContext \in AllContexts
        /\ conv = ComputeConversion(senderContext, mContext)
        /\ Valid(senderContext) /\ Valid(mContext)
    BY DEF CtxInv
  <2>2. SignedPermutation(conv)
    BY <2>1, ConversionFacts
  <2>3. \A q \in Rotations : IntQuaternion(q)
    BY DEF Rotations, IntQuaternion
  <2>4. \A q \in Rotations :
          ConvertMatrix(conv, [r |-> Matrix(q), t |-> [i \in Slots |-> 0]]).r
            = Matrix(ConvertRotation(conv, q))
    BY <2>2, <2>3, RotationKept
  <2>5. ASSUME NEW p \in Points
        PROVE  LET moved == ConvertTranslation(conv, p)
               IN  /\ Place(mContext, moved) = Place(senderContext, p)
                   /\ ConvertMatrix(conv, [r |-> Basis(conv), t |-> p]).t = moved
    BY <2>1, <2>5, PointKept
  <2> QED
    BY <2>4, <2>5
<1> QED
  BY <1>1, CtxInitial, CtxStep, PTL DEF CtxSpec

\* A conversion takes each axis from another, forwards or backwards.
THEOREM CtxTyped == CtxSpec => []CtxTypeOK
<1>1. CtxInv => CtxTypeOK
  <2> SUFFICES ASSUME CtxInv PROVE CtxTypeOK
    OBVIOUS
  <2>1. {mContext, senderContext} \subseteq Contexts \cup {NoContext}
    BY DEF CtxInv, AllContexts
  <2>2. ASSUME NEW conv \in conversion PROVE SignedPermutation(conv)
    <3>1. /\ conv = ComputeConversion(senderContext, mContext)
          /\ Valid(senderContext) /\ Valid(mContext)
          /\ mContext \in AllContexts /\ senderContext \in AllContexts
      BY <2>2 DEF CtxInv
    <3> QED
      BY <3>1, ConversionFacts
  <2>3. ASSUME NEW conv \in conversion
        PROVE  /\ {conv.axisRemap[i] : i \in Slots} = Slots
               /\ \A i \in Slots : conv.axisSign[i] \in {-1, 1}
    <3>1. SignedPermutation(conv)
      BY <2>2
    <3> DEFINE r == conv.axisRemap
    <3>2. /\ r[0] \in {0, 1, 2} /\ r[1] \in {0, 1, 2} /\ r[2] \in {0, 1, 2}
          /\ r[0] # r[1] /\ r[0] # r[2] /\ r[1] # r[2]
      <4>1. /\ \A i \in Slots : r[i] \in Slots
            /\ \A i, j \in Slots : r[i] = r[j] => i = j
        BY <3>1 DEF SignedPermutation
      <4> HIDE DEF r
      <4>2. 0 \in Slots /\ 1 \in Slots /\ 2 \in Slots /\ Slots = {0, 1, 2}
        BY DEF Slots
      <4> QED
        BY <4>1, <4>2
    <3>3. \A i \in Slots : conv.axisSign[i] \in {-1, 1}
      BY <3>1 DEF SignedPermutation
    <3> HIDE DEF r
    <3>4. {r[i] : i \in Slots} = Slots
      BY <3>2, SlotFacts
    <3> QED
      BY <3>3, <3>4 DEF r
  <2> QED
    BY <2>1, <2>3 DEF CtxTypeOK
<1> QED
  BY <1>1, CtxInitial, CtxStep, PTL DEF CtxSpec

-----------------------------------------------------------------------------
(* What is in a list and in a packet.                                      *)

OfOneKind(kind) == {s \in Subjects : s.kind = kind}
DataOf(kind)    == {SubjectData(s) : s \in OfOneKind(kind)}
UpdatesOf(kind) == {SubjectUpdate(s) : s \in OfOneKind(kind)}

\* The packets there are: entries are of the kind they are listed under, and an
\* envelope is of the packet's time.
MadePackets ==
    {p \in ListPackets :
        /\ p.envelope \in {0, p.made}
        /\ \A k \in Kinds : p.data[k] \in Seq(DataOf(k)) /\ p.updates[k] \in Seq(UpdatesOf(k))}

\* The stacks there are are made of components.
LEMMA StackFacts ==
    ASSUME NEW t \in Stacks \cup {NoStack}
    PROVE  /\ t = Stack(t.mTransformOrder, t.mMatrices)
           /\ t.mTransformOrder \in Seq({"TTranslation", "TRotation", "TScale", "TMatrix"})
<1> DEFINE C == {"TTranslation", "TRotation", "TScale", "TMatrix"}
<1>1. /\ <<>> \in Seq(C)
      /\ <<"TTranslation", "TMatrix", "TRotation", "TMatrix", "TScale">> \in Seq(C)
      /\ <<"TTranslation", "TMatrix", "TRotation", "TMatrix", "TScale", "TMatrix">> \in Seq(C)
      /\ <<"TTranslation", "TRotation", "TScale">> \in Seq(C)
  OBVIOUS
<1>2. t \in {MobuStack, FbxStack, Offset, NoStack}
  BY DEF Stacks
<1> HIDE DEF C
<1>3. t.mTransformOrder \in Seq(C)
  <2>1. CASE t = MobuStack
    BY <1>1, <2>1 DEF MobuStack, Stack
  <2>2. CASE t = FbxStack
    BY <1>1, <2>2 DEF FbxStack, Stack
  <2>3. CASE t = Offset
    BY <1>1, <2>3 DEF Offset, Stack
  <2>4. CASE t = NoStack
    BY <1>1, <2>4 DEF NoStack, Stack
  <2> QED
    BY <1>2, <2>1, <2>2, <2>3, <2>4
<1>4. t = Stack(t.mTransformOrder, t.mMatrices)
  BY <1>2 DEF MobuStack, FbxStack, Offset, NoStack, Stack
<1> QED
  BY <1>3, <1>4 DEF C

\* The receiver makes of a transform what the sender had.
LEMMA RoundTrip ==
    ASSUME NEW t \in Stacks \cup {NoStack}
    PROVE  ParseTransform(SerializeTransform(t)) = t
<1> DEFINE C == {"TTranslation", "TRotation", "TScale", "TMatrix"}
           type(id) == CHOOSE c \in DOMAIN Component : Component[c] = id
           o == t.mTransformOrder
           said == [k \in DOMAIN o |-> Component[o[k]]]
<1>1. DOMAIN Component = C
  BY DEF Component
<1>2. \A c \in C : type(Component[c]) = c
  <2> SUFFICES ASSUME NEW c \in C PROVE type(Component[c]) = c
    OBVIOUS
  <2>1. \A d \in C : Component[d] = Component[c] => d = c
    BY DEF Component
  <2> HIDE DEF C
  <2> QED
    BY <1>1, <2>1
<1>3. t = Stack(o, t.mMatrices) /\ o \in Seq(C)
  BY StackFacts
<1> HIDE DEF C, o
<1>4. \A k \in DOMAIN o : o[k] \in C
  BY <1>3
<1>5. DOMAIN said = DOMAIN o /\ \A k \in DOMAIN o : type(said[k]) = o[k]
  BY <1>2, <1>4
<1>6. o = [k \in DOMAIN o |-> o[k]]
  BY <1>3
<1>7. [k \in DOMAIN said |-> type(said[k])] = o
  BY <1>5, <1>6
<1>8. SerializeTransform(t) = [components |-> said, matrices |-> t.mMatrices]
  BY DEF SerializeTransform, o
<1> HIDE DEF said
<1>9. ParseTransform(SerializeTransform(t)) = Stack([k \in DOMAIN said |-> type(said[k])], t.mMatrices)
  BY <1>8 DEF ParseTransform
<1> QED
  BY <1>3, <1>7, <1>9

\* The first subject with a uuid, if it is of the kind looked for.
LEMMA FindFacts ==
    ASSUME NEW items \in Seq(Subjects), NEW u, NEW kind
    PROVE  LET i == FindByUuid(items, u, kind)
           IN  /\ i \in 0 .. Len(items)
               /\ i # 0 => items[i].mUuid = u /\ items[i].kind = kind
               /\ i = 0 => \/ \A j \in 1 .. Len(items) : items[j].mUuid # u
                           \/ \E j \in 1 .. Len(items) : items[j].mUuid = u /\ items[j].kind # kind
<1> DEFINE n == Len(items)
           I == {j \in 1 .. n : items[j].mUuid = u}
           i == SelectInSeq(items, LAMBDA s : s.mUuid = u)
<1>1. n \in Nat
  OBVIOUS
<1>2. i = IF I # {} THEN Min(I) ELSE 0
  BY DEF SelectInSeq
<1>3. FindByUuid(items, u, kind) = IF i # 0 /\ items[i].kind = kind THEN i ELSE 0
  BY DEF FindByUuid
<1> HIDE DEF i, n
<1>4. CASE I = {}
  BY <1>1, <1>2, <1>3, <1>4 DEF n
<1>5. CASE I # {}
  <2>1. I \subseteq Nat
    BY <1>1
  <2>2. Min(I) \in I
    BY <1>5, <2>1, LeastFacts
  <2>3. i \in I /\ i \in 1 .. n /\ i # 0
    BY <1>2, <1>5, <2>2
  <2>4. items[i].mUuid = u
    BY <2>3
  <2> QED
    BY <1>1, <1>3, <2>3, <2>4 DEF n
<1> QED
  BY <1>4, <1>5

-----------------------------------------------------------------------------
(* One entry.                                                              *)

Pair(s) == <<s.mUuid, s.kind>>

\* r is a list with another transform, or another lens, at i.
Restacked(items, i, t, r) ==
    /\ r \in Seq(Subjects) /\ Len(r) = Len(items) /\ r[i].transform = t
    /\ \A j \in 1 .. Len(items) : Pair(r[j]) = Pair(items[j]) /\ r[j].lens = items[j].lens
    /\ \A j \in 1 .. Len(items) : j # i => r[j] = items[j]
Relensed(items, i, x, r) ==
    /\ r \in Seq(Subjects) /\ Len(r) = Len(items) /\ r[i].lens = x
    /\ \A j \in 1 .. Len(items) :
         Pair(r[j]) = Pair(items[j]) /\ r[j].transform = items[j].transform
    /\ \A j \in 1 .. Len(items) : j # i => r[j] = items[j]

\* Replacing the transform or the lens of a list's item does that and nothing more.
LEMMA Reformed ==
    ASSUME NEW items \in Seq(Subjects), NEW i \in 1 .. Len(items)
    PROVE  /\ \A t \in Stacks \cup {NoStack} :
                Restacked(items, i, t, [items EXCEPT ![i].transform = t])
           /\ \A x \in 0 .. 1 : Relensed(items, i, x, [items EXCEPT ![i].lens = x])
<1> SUFFICES ASSUME NEW t \in Stacks \cup {NoStack}, NEW x \in 0 .. 1
             PROVE  /\ Restacked(items, i, t, [items EXCEPT ![i].transform = t])
                    /\ Relensed(items, i, x, [items EXCEPT ![i].lens = x])
  <2>1. NoStack \in Stacks \cup {NoStack} /\ 0 \in 0 .. 1
    OBVIOUS
  <2> QED
    BY <2>1, Zenon
<1> DEFINE n == Len(items)
           a == [items[i] EXCEPT !.transform = t]
           b == [items[i] EXCEPT !.lens = x]
           r == [items EXCEPT ![i] = a]
           q == [items EXCEPT ![i] = b]
<1>1. n \in Nat /\ items \in [1 .. n -> Subjects] /\ items[i] \in Subjects
  OBVIOUS
<1>2. /\ a \in Subjects /\ a.transform = t /\ a.lens = items[i].lens
      /\ a.mUuid = items[i].mUuid /\ a.kind = items[i].kind
  BY <1>1 DEF Subjects
<1>3. /\ b \in Subjects /\ b.lens = x /\ b.transform = items[i].transform
      /\ b.mUuid = items[i].mUuid /\ b.kind = items[i].kind
  BY <1>1 DEF Subjects
<1> HIDE DEF n, a, b
<1>4. i \in 1 .. n
  BY DEF n
<1>5. r \in [1 .. n -> Subjects] /\ r[i] = a /\ \A j \in 1 .. n : j # i => r[j] = items[j]
  BY <1>1, <1>2, <1>4
<1>6. q \in [1 .. n -> Subjects] /\ q[i] = b /\ \A j \in 1 .. n : j # i => q[j] = items[j]
  BY <1>1, <1>3, <1>4
<1>7. r \in Seq(Subjects) /\ q \in Seq(Subjects) /\ Len(r) = n /\ Len(q) = n
  <2> HIDE DEF r, q
  <2>1. \A g \in [1 .. n -> Subjects] : g \in Seq(Subjects) /\ Len(g) = n
    <3>1. ASSUME NEW g \in [1 .. n -> Subjects] PROVE g \in Seq(Subjects) /\ Len(g) = n
      <4>1. DOMAIN g = 1 .. n
        BY <3>1
      <4> QED
        BY <1>1, <3>1, <4>1, SeqDef
    <3> QED
      BY <3>1
  <2> QED
    BY <1>5, <1>6, <2>1
<1>8. \A j \in 1 .. n :
        /\ Pair(r[j]) = Pair(items[j]) /\ r[j].lens = items[j].lens
        /\ Pair(q[j]) = Pair(items[j]) /\ q[j].transform = items[j].transform
  BY <1>2, <1>3, <1>5, <1>6 DEF Pair
<1>9. r[i].transform = t /\ q[i].lens = x
  BY <1>2, <1>3, <1>5, <1>6
<1>10. [items EXCEPT ![i].transform = t] = r /\ [items EXCEPT ![i].lens = x] = q
  BY DEF r, q, a, b
<1> HIDE DEF r, q
<1> QED
  BY <1>5, <1>6, <1>7, <1>8, <1>9, <1>10 DEF n, Restacked, Relensed

\* What a definition does to a list.
DefinitionDone(items, s, r) ==
    /\ r \in Seq(Subjects) /\ Len(items) <= Len(r)
    /\ \A j \in 1 .. Len(items) : Pair(r[j]) = Pair(items[j]) /\ r[j].lens = items[j].lens
    /\ \E at \in 1 .. Len(r) :
         /\ Pair(r[at]) = Pair(s) /\ Local(r[at].transform) = s.local
         /\ \A j \in 1 .. Len(items) : j # at => r[j] = items[j]
         /\ \/ Len(r) = Len(items)
            \/ /\ at = Len(r) /\ Len(r) = Len(items) + 1
               /\ \/ \A j \in 1 .. Len(items) : items[j].mUuid # s.mUuid
                  \/ \E j \in 1 .. Len(items) : items[j].mUuid = s.mUuid /\ items[j].kind # s.kind

\* What parsing one definition does to the list.
LEMMA DefinitionDoes ==
    ASSUME NEW items \in Seq(Subjects), NEW kind \in Kinds, NEW s \in DataOf(kind)
    PROVE  DefinitionDone(items, s, ParseDefinition(items, s))
<1> DEFINE u == s.mUuid
           n == Len(items)
           i == FindByUuid(items, u, kind)
           t == ParseTransform(s.nodes)
<1>1. PICK z \in Subjects : s = SubjectData(z) /\ z.kind = kind
  BY DEF DataOf, OfOneKind
<1>2. /\ s.mUuid = z.mUuid /\ s.kind = kind /\ s.nodes = SerializeTransform(z.transform)
      /\ s.local = Local(z.transform)
  BY <1>1 DEF SubjectData
<1>3. z.transform \in Stacks \cup {NoStack} /\ u \in SubjectUuids
  BY <1>1, <1>2 DEF Subjects
<1>4. t = z.transform
  BY <1>2, <1>3, RoundTrip
<1>5. t \in Stacks \cup {NoStack} /\ Local(t) = s.local
  BY <1>2, <1>3, <1>4
<1>6. n \in Nat
  OBVIOUS
<1>7. /\ i \in 0 .. n
      /\ i # 0 => items[i].mUuid = u /\ items[i].kind = kind
      /\ i = 0 => \/ \A j \in 1 .. n : items[j].mUuid # u
                  \/ \E j \in 1 .. n : items[j].mUuid = u /\ items[j].kind # kind
  BY FindFacts
<1> HIDE DEF t
<1>8. CASE i # 0
  <2> DEFINE r == [items EXCEPT ![i].transform = t]
  <2>1. ParseDefinition(items, s) = r
    BY <1>2, <1>8 DEF ParseDefinition, FindOrAdd, t
  <2>2. i \in 1 .. n
    BY <1>6, <1>7, <1>8
  <2> HIDE DEF i
  <2>0. Restacked(items, i, t, r)
    BY <1>5, <2>2, Reformed, Zenon
  <2> HIDE DEF r
  <2>3. /\ r \in Seq(Subjects) /\ Len(r) = n
        /\ \A j \in 1 .. n : Pair(r[j]) = Pair(items[j]) /\ r[j].lens = items[j].lens
        /\ \A j \in 1 .. n : j # i => r[j] = items[j]
        /\ r[i].transform = t
    BY <2>0 DEF Restacked
  <2>4. Pair(items[i]) = Pair(s)
    BY <1>2, <1>7, <1>8 DEF Pair
  <2>5. Pair(r[i]) = Pair(s) /\ Local(r[i].transform) = s.local
    BY <1>5, <2>2, <2>3, <2>4
  <2>6. DefinitionDone(items, s, r)
    BY <1>6, <2>2, <2>3, <2>5 DEF DefinitionDone
  <2> QED
    BY <2>1, <2>6
<1>9. CASE i = 0
  <2> DEFINE new == NewSubject(u, kind)
             more == Append(items, new)
             r == [more EXCEPT ![n + 1].transform = t]
  <2>1. ParseDefinition(items, s) = r
    BY <1>2, <1>9 DEF ParseDefinition, FindOrAdd, t
  <2>2. new \in Subjects /\ Pair(new) = Pair(s)
    BY <1>2, <1>3 DEF NewSubject, Subjects, Pair
  <2> HIDE DEF i, new
  <2>3. /\ more \in Seq(Subjects) /\ Len(more) = n + 1 /\ more[n + 1] = new
        /\ \A j \in 1 .. n : more[j] = items[j]
    BY <2>2
  <2>4. n + 1 \in 1 .. Len(more)
    BY <1>6, <2>3
  <2> HIDE DEF more
  <2>0. Restacked(more, n + 1, t, r)
    BY <1>5, <2>3, <2>4, Reformed, Zenon
  <2> HIDE DEF r
  <2>5. /\ r \in Seq(Subjects) /\ Len(r) = Len(more)
        /\ \A j \in 1 .. Len(more) : Pair(r[j]) = Pair(more[j]) /\ r[j].lens = more[j].lens
        /\ \A j \in 1 .. Len(more) : j # n + 1 => r[j] = more[j]
        /\ r[n + 1].transform = t
    BY <2>0 DEF Restacked
  <2> HIDE DEF n
  <2>6. \A j \in 1 .. n : j \in 1 .. n + 1 /\ j # n + 1
    BY <1>6
  <2>7. n + 1 \in 1 .. n + 1 /\ n <= n + 1
    BY <1>6
  <2>8. \A j \in 1 .. n : Pair(r[j]) = Pair(items[j]) /\ r[j].lens = items[j].lens /\ r[j] = items[j]
    BY <2>3, <2>5, <2>6
  <2>9. Pair(r[n + 1]) = Pair(s) /\ Local(r[n + 1].transform) = s.local
    BY <1>5, <2>2, <2>3, <2>5, <2>7
  <2>10. Len(r) = n + 1 /\ r \in Seq(Subjects)
    BY <2>3, <2>5
  <2>11. \/ \A j \in 1 .. n : items[j].mUuid # s.mUuid
         \/ \E j \in 1 .. n : items[j].mUuid = s.mUuid /\ items[j].kind # s.kind
    BY <1>2, <1>7, <1>9
  <2>12. DefinitionDone(items, s, r)
    <3>1. Len(items) = n
      BY DEF n
    <3> QED
      BY <2>7, <2>8, <2>9, <2>10, <2>11, <3>1 DEF DefinitionDone
  <2> QED
    BY <2>1, <2>12
<1> QED
  BY <1>8, <1>9

\* What an update does to a list.
UpdateDone(items, s, r) ==
    /\ r \in Seq(Subjects) /\ Len(r) = Len(items)
    /\ \A j \in 1 .. Len(items) : Pair(r[j]) = Pair(items[j]) /\ r[j].transform = items[j].transform
    /\ \/ /\ \A j \in 1 .. Len(items) : r[j] = items[j]
          /\ \/ \A j \in 1 .. Len(items) : items[j].mUuid # s.mUuid
             \/ \E j \in 1 .. Len(items) : items[j].mUuid = s.mUuid /\ items[j].kind # s.kind
       \/ \E at \in 1 .. Len(items) :
            /\ Pair(items[at]) = Pair(s) /\ r[at].lens = s.lens
            /\ \A j \in 1 .. Len(items) : j # at => r[j] = items[j]

\* What parsing one update does to the list.
LEMMA UpdateDoes ==
    ASSUME NEW items \in Seq(Subjects), NEW kind \in Kinds, NEW s \in UpdatesOf(kind)
    PROVE  UpdateDone(items, s, ParseUpdate(items, s))
<1> DEFINE n == Len(items)
           i == FindByUuid(items, s.mUuid, kind)
           r == [items EXCEPT ![i].lens = s.lens]
<1>1. s.kind = kind /\ s.lens \in 0 .. 1
  BY DEF UpdatesOf, OfOneKind, Subjects, SubjectUpdate
<1>2. n \in Nat
  OBVIOUS
<1>3. /\ i \in 0 .. n
      /\ i # 0 => items[i].mUuid = s.mUuid /\ items[i].kind = kind
      /\ i = 0 => \/ \A j \in 1 .. n : items[j].mUuid # s.mUuid
                  \/ \E j \in 1 .. n : items[j].mUuid = s.mUuid /\ items[j].kind # kind
  BY FindFacts
<1>4. ParseUpdate(items, s) = IF i = 0 THEN items ELSE r
  BY <1>1 DEF ParseUpdate
<1>5. CASE i = 0
  BY <1>1, <1>3, <1>4, <1>5 DEF UpdateDone
<1>6. CASE i # 0
  <2>1. i \in 1 .. n
    BY <1>2, <1>3, <1>6
  <2>2. Pair(items[i]) = Pair(s)
    BY <1>1, <1>3, <1>6 DEF Pair
  <2> HIDE DEF i
  <2>3. Relensed(items, i, s.lens, r)
    BY <1>1, <2>1, Reformed, Zenon
  <2> HIDE DEF r
  <2>4. /\ r \in Seq(Subjects) /\ Len(r) = n
        /\ \A j \in 1 .. n : Pair(r[j]) = Pair(items[j]) /\ r[j].transform = items[j].transform
        /\ \A j \in 1 .. n : j # i => r[j] = items[j]
        /\ r[i].lens = s.lens
    BY <2>3 DEF Relensed
  <2>5. UpdateDone(items, s, r)
    BY <2>1, <2>2, <2>4 DEF UpdateDone
  <2> QED
    BY <1>4, <1>6, <2>5
<1> QED
  BY <1>5, <1>6

-----------------------------------------------------------------------------
(* What a list is while a packet is taken in.  T are the uuids with kinds  *)
(* that were told so far, F those that will have been told at the end; of  *)
(* a packet's entries of a kind k the first d[k] definitions and the first *)
(* e[k] updates are taken in.                                              *)

\* A uuid that comes under one kind.
Lone(T, u) == \A a, b \in Kinds : <<u, a>> \in T /\ <<u, b>> \in T => a = b

\* The subjects that were told, and two of one uuid only where it has two kinds.
Listed(T) ==
    {items \in Seq(Subjects) :
        /\ \A i \in 1 .. Len(items) : Pair(items[i]) \in T
        /\ \A p \in T : \E i \in 1 .. Len(items) : Pair(items[i]) = p
        /\ \A i, j \in 1 .. Len(items) :
             items[i].mUuid = items[j].mUuid /\ i # j => ~Lone(T, items[i].mUuid)}

\* The last of the first m entries that is for u.
LastAt(entries, m, u, j) ==
    /\ j \in 1 .. m /\ entries[j].mUuid = u
    /\ \A l \in 1 .. m : entries[l].mUuid = u => l <= j

ShownData(s, p, d) ==
    \A j \in Nat : LastAt(p.data[s.kind], d[s.kind], s.mUuid, j) =>
        Local(s.transform) = p.data[s.kind][j].local
ShownLens(s, p, e) ==
    \A j \in Nat : LastAt(p.updates[s.kind], e[s.kind], s.mUuid, j) =>
        s.lens = p.updates[s.kind][j].lens

Shown(F, p, d, e) ==
    {items \in Seq(Subjects) :
        \A i \in 1 .. Len(items) : Lone(F, items[i].mUuid) =>
            ShownData(items[i], p, d) /\ ShownLens(items[i], p, e)}

Upto(d, kind, m) == [k \in Kinds |-> IF k = kind THEN m ELSE d[k]]

\* The entry that comes next is the last of its uuid, and of no other.
LEMMA LastFacts ==
    ASSUME NEW entries, NEW m \in Nat, m # 0
    PROVE  /\ \A j \in Nat : LastAt(entries, m, entries[m].mUuid, j) => j = m
           /\ \A u : u # entries[m].mUuid =>
                \A j \in Nat : LastAt(entries, m, u, j) => LastAt(entries, m - 1, u, j)
<1>1. m \in 1 .. m /\ \A j \in 1 .. m : j # m => j \in 1 .. m - 1
  OBVIOUS
<1>2. \A j \in 1 .. m - 1 : j \in 1 .. m
  OBVIOUS
<1>3. ASSUME NEW j \in Nat, LastAt(entries, m, entries[m].mUuid, j) PROVE j = m
  <2>1. j \in 1 .. m /\ m <= j
    BY <1>1, <1>3 DEF LastAt
  <2> QED
    BY <2>1
<1>4. ASSUME NEW u, u # entries[m].mUuid, NEW j \in Nat, LastAt(entries, m, u, j)
      PROVE  LastAt(entries, m - 1, u, j)
  BY <1>1, <1>2, <1>4 DEF LastAt
<1> QED
  BY <1>3, <1>4, Zenon

\* Two subjects of one uuid are not for a uuid that comes under one kind.
LEMMA OneOfLone ==
    ASSUME NEW T, NEW F, T \subseteq F, NEW items \in Listed(T),
           NEW i \in 1 .. Len(items), NEW j \in 1 .. Len(items), items[i].mUuid = items[j].mUuid,
           Lone(F, items[i].mUuid)
    PROVE  i = j
<1>1. Lone(T, items[i].mUuid)
  BY DEF Lone
<1> QED
  BY <1>1 DEF Listed

\* One definition.
LEMMA DefinitionStep ==
    ASSUME NEW p, NEW T, NEW F, NEW d, NEW e, NEW kind \in Kinds, NEW m \in Nat, m # 0,
           d[kind] = m - 1, e[kind] = 0, NEW s, s = p.data[kind][m], s \in DataOf(kind),
           T \cup {Pair(s)} \subseteq F, NEW items, items \in Listed(T),
           items \in Shown(F, p, d, e), NEW r, DefinitionDone(items, s, r)
    PROVE  r \in Listed(T \cup {Pair(s)}) /\ r \in Shown(F, p, Upto(d, kind, m), e)
<1> DEFINE n == Len(items)
           u == s.mUuid
           q == <<u, kind>>
           S == T \cup {q}
<1>1. s.kind = kind /\ Pair(s) = q
  BY DEF DataOf, OfOneKind, Subjects, SubjectData, Pair
<1>2. items \in Seq(Subjects) /\ n \in Nat
  BY DEF Listed
<1>3. /\ \A i \in 1 .. n : Pair(items[i]) \in T
      /\ \A x \in T : \E i \in 1 .. n : Pair(items[i]) = x
      /\ \A i, j \in 1 .. n :
           items[i].mUuid = items[j].mUuid /\ i # j => ~Lone(T, items[i].mUuid)
  BY DEF Listed
<1>4. /\ r \in Seq(Subjects) /\ n <= Len(r)
      /\ \A j \in 1 .. n : Pair(r[j]) = Pair(items[j]) /\ r[j].lens = items[j].lens
  BY DEF DefinitionDone
<1>5. PICK at \in 1 .. Len(r) :
         /\ Pair(r[at]) = q /\ Local(r[at].transform) = s.local
         /\ \A j \in 1 .. n : j # at => r[j] = items[j]
         /\ \/ Len(r) = n
            \/ /\ at = Len(r) /\ Len(r) = n + 1
               /\ \/ \A j \in 1 .. n : items[j].mUuid # u
                  \/ \E j \in 1 .. n : items[j].mUuid = u /\ items[j].kind # kind
  BY <1>1 DEF DefinitionDone
<1>6. \A i \in 1 .. Len(r) : i # at => i \in 1 .. n
  BY <1>2, <1>4, <1>5
<1>7. \A i \in 1 .. n : i \in 1 .. Len(r)
  BY <1>2, <1>4
<1>8. \A i \in 1 .. n : /\ items[i].mUuid \in SubjectUuids /\ items[i].kind \in Kinds
                       /\ <<items[i].mUuid, items[i].kind>> \in T
  <2>1. \A i \in 1 .. n : items[i] \in Subjects
    BY <1>2
  <2>2. \A i \in 1 .. n : items[i].mUuid \in SubjectUuids /\ items[i].kind \in Kinds
    BY <2>1 DEF Subjects
  <2> QED
    BY <1>3, <2>2 DEF Pair
<1>9. \A i \in 1 .. n : r[i].mUuid = items[i].mUuid /\ r[i].kind = items[i].kind
  BY <1>4 DEF Pair
<1>10. r[at].mUuid = u /\ r[at].kind = kind
  BY <1>5 DEF Pair
<1> HIDE DEF n, u, q
<1>11. \A i \in 1 .. Len(r) : Pair(r[i]) \in S
  BY <1>3, <1>4, <1>5, <1>6
<1>12. \A x \in S : \E i \in 1 .. Len(r) : Pair(r[i]) = x
  BY <1>3, <1>4, <1>5, <1>7
<1>13. q = <<u, kind>>
  BY DEF q
<1>14. \A v : Lone(S, v) => Lone(T, v)
  BY DEF Lone
\* A place of items with the uuid of s, another than at.
<1>15. ASSUME NEW j \in 1 .. n, j # at, items[j].mUuid = u PROVE ~Lone(S, u)
  <2>1. CASE at \in 1 .. n
    <3>1. ~Lone(T, u)
      BY <1>3, <1>9, <1>10, <1>15, <2>1
    <3> QED
      BY <1>14, <3>1
  <2>2. CASE at \notin 1 .. n
    <3>1. Len(r) # n
      BY <1>5, <2>2
    <3>2. PICK l \in 1 .. n : items[l].mUuid = u /\ items[l].kind # kind
      BY <1>5, <1>15, <3>1
    <3>3. <<u, items[l].kind>> \in S /\ <<u, kind>> \in S
      BY <1>8, <1>13, <3>2
    <3> QED
      BY <1>8, <3>2, <3>3 DEF Lone
  <2> QED
    BY <2>1, <2>2
<1>16. ASSUME NEW i \in 1 .. Len(r), NEW j \in 1 .. Len(r), r[i].mUuid = r[j].mUuid, i # j
       PROVE  ~Lone(S, r[i].mUuid)
  <2>1. CASE i = at
    BY <1>6, <1>9, <1>10, <1>15, <1>16, <2>1
  <2>2. CASE j = at
    BY <1>6, <1>9, <1>10, <1>15, <1>16, <2>2
  <2>3. CASE i # at /\ j # at
    BY <1>3, <1>6, <1>9, <1>14, <1>16, <2>3
  <2> QED
    BY <2>1, <2>2, <2>3
<1>17. r \in Listed(S)
  BY <1>4, <1>11, <1>12, <1>16 DEF Listed
<1>18. S \subseteq F
  BY <1>1
<1>19. \A v : Lone(F, v) => Lone(S, v)
  BY <1>18 DEF Lone
<1>20. Upto(d, kind, m)[kind] = m /\ \A k \in Kinds : k # kind => Upto(d, kind, m)[k] = d[k]
  BY DEF Upto
<1>21. \A i \in 1 .. n : Lone(F, items[i].mUuid) =>
          ShownData(items[i], p, d) /\ ShownLens(items[i], p, e)
  BY DEF Shown, n
<1>22. ASSUME NEW i \in 1 .. Len(r), Lone(F, r[i].mUuid)
       PROVE  ShownData(r[i], p, Upto(d, kind, m)) /\ ShownLens(r[i], p, e)
  <2>1. CASE i = at
    <3>1. ShownData(r[i], p, Upto(d, kind, m))
      <4>1. ASSUME NEW j \in Nat, LastAt(p.data[kind], m, u, j) PROVE j = m
        BY <4>1, LastFacts DEF u
      <4> QED
        BY <1>5, <1>10, <1>20, <2>1, <4>1 DEF ShownData
    <3>2. ShownLens(r[i], p, e)
      <4>1. \A j \in Nat : ~LastAt(p.updates[kind], 0, u, j)
        BY DEF LastAt
      <4> QED
        BY <1>10, <2>1, <4>1 DEF ShownLens
    <3> QED
      BY <3>1, <3>2
  <2>2. CASE i # at
    <3>1. i \in 1 .. n /\ r[i] = items[i]
      BY <1>5, <1>6, <2>2
    <3>2. ShownData(items[i], p, d) /\ ShownLens(items[i], p, e)
      BY <1>21, <1>22, <3>1
    <3>3. items[i].mUuid # u
      BY <1>15, <1>19, <1>22, <2>2, <3>1
    <3>4. ASSUME NEW j \in Nat,
                 LastAt(p.data[items[i].kind], Upto(d, kind, m)[items[i].kind], items[i].mUuid, j)
          PROVE  LastAt(p.data[items[i].kind], d[items[i].kind], items[i].mUuid, j)
      <4>1. CASE items[i].kind = kind
        <5>1. LastAt(p.data[kind], m, items[i].mUuid, j)
          BY <1>20, <3>4, <4>1
        <5>2. LastAt(p.data[kind], m - 1, items[i].mUuid, j)
          BY <3>3, <5>1, LastFacts DEF u
        <5> QED
          BY <4>1, <5>2
      <4>2. CASE items[i].kind # kind
        BY <1>8, <1>20, <3>1, <3>4, <4>2
      <4> QED
        BY <4>1, <4>2
    <3>5. ShownData(items[i], p, Upto(d, kind, m))
      BY <3>2, <3>4 DEF ShownData
    <3> QED
      BY <3>1, <3>2, <3>5
  <2> QED
    BY <2>1, <2>2
<1>23. r \in Shown(F, p, Upto(d, kind, m), e)
  BY <1>4, <1>22 DEF Shown
<1> QED
  BY <1>1, <1>17, <1>23

\* One update.
LEMMA UpdateStep ==
    ASSUME NEW p, NEW T, NEW F, NEW d, NEW e, NEW kind \in Kinds, NEW m \in Nat, m # 0,
           e[kind] = m - 1, NEW s, s = p.updates[kind][m], s \in UpdatesOf(kind),
           T \subseteq F, NEW items, items \in Listed(T),
           items \in Shown(F, p, d, e), NEW r, UpdateDone(items, s, r)
    PROVE  r \in Listed(T) /\ r \in Shown(F, p, d, Upto(e, kind, m))
<1> DEFINE n == Len(items)
           u == s.mUuid
<1>1. s.kind = kind
  BY DEF UpdatesOf, OfOneKind, Subjects, SubjectUpdate
<1>2. items \in Seq(Subjects) /\ n \in Nat
  BY DEF Listed
<1>3. /\ \A i \in 1 .. n : Pair(items[i]) \in T
      /\ \A x \in T : \E i \in 1 .. n : Pair(items[i]) = x
      /\ \A i, j \in 1 .. n :
           items[i].mUuid = items[j].mUuid /\ i # j => ~Lone(T, items[i].mUuid)
  BY DEF Listed
<1>4. /\ r \in Seq(Subjects) /\ Len(r) = n
      /\ \A j \in 1 .. n : Pair(r[j]) = Pair(items[j]) /\ r[j].transform = items[j].transform
  BY DEF UpdateDone
<1>5. \/ /\ \A j \in 1 .. n : r[j] = items[j]
         /\ \/ \A j \in 1 .. n : items[j].mUuid # u
            \/ \E j \in 1 .. n : items[j].mUuid = u /\ items[j].kind # kind
      \/ \E at \in 1 .. n :
            /\ Pair(items[at]) = Pair(s) /\ r[at].lens = s.lens
            /\ \A j \in 1 .. n : j # at => r[j] = items[j]
  BY <1>1 DEF UpdateDone
<1>6. \A i \in 1 .. n : items[i].mUuid \in SubjectUuids /\ items[i].kind \in Kinds
  <2>1. \A i \in 1 .. n : items[i] \in Subjects
    BY <1>2
  <2> QED
    BY <2>1 DEF Subjects
<1>7. \A i \in 1 .. n : r[i].mUuid = items[i].mUuid /\ r[i].kind = items[i].kind
  BY <1>4 DEF Pair
<1>8. \A i \in 1 .. n : Lone(F, items[i].mUuid) =>
          ShownData(items[i], p, d) /\ ShownLens(items[i], p, e)
  BY DEF Shown, n
<1>9. \A i, j \in 1 .. n :
         items[i].mUuid = items[j].mUuid /\ Lone(F, items[i].mUuid) => i = j
  BY OneOfLone DEF n
<1> HIDE DEF n, u
<1>10. r \in Listed(T)
  BY <1>3, <1>4, <1>7 DEF Listed
<1>11. Upto(e, kind, m)[kind] = m /\ \A k \in Kinds : k # kind => Upto(e, kind, m)[k] = e[k]
  BY DEF Upto
<1>12. \A i \in 1 .. n : ShownData(items[i], p, d) => ShownData(r[i], p, d)
  BY <1>4, <1>7 DEF ShownData
\* A subject the update is not for.
<1>13. ASSUME NEW i \in 1 .. n, ShownLens(items[i], p, e), r[i] = items[i],
              items[i].mUuid = u => items[i].kind # kind
       PROVE  ShownLens(r[i], p, Upto(e, kind, m))
  <2>1. ASSUME NEW j \in Nat,
               LastAt(p.updates[items[i].kind], Upto(e, kind, m)[items[i].kind], items[i].mUuid, j)
        PROVE  LastAt(p.updates[items[i].kind], e[items[i].kind], items[i].mUuid, j)
    <3>1. CASE items[i].kind = kind
      <4>1. LastAt(p.updates[kind], m, items[i].mUuid, j)
        BY <1>11, <2>1, <3>1
      <4>2. items[i].mUuid # p.updates[kind][m].mUuid
        BY <1>13, <3>1 DEF u
      <4>3. LastAt(p.updates[kind], m - 1, items[i].mUuid, j)
        BY <4>1, <4>2, LastFacts
      <4> QED
        BY <3>1, <4>3
    <3>2. CASE items[i].kind # kind
      BY <1>6, <1>11, <1>13, <2>1, <3>2
    <3> QED
      BY <3>1, <3>2
  <2> QED
    BY <1>13, <2>1 DEF ShownLens
<1>14. ASSUME NEW i \in 1 .. n, Lone(F, items[i].mUuid)
       PROVE  ShownLens(r[i], p, Upto(e, kind, m))
  <2>1. CASE /\ \A j \in 1 .. n : r[j] = items[j]
             /\ \/ \A j \in 1 .. n : items[j].mUuid # u
                \/ \E j \in 1 .. n : items[j].mUuid = u /\ items[j].kind # kind
    <3>1. items[i].mUuid = u => items[i].kind # kind
      BY <1>9, <1>14, <2>1
    <3> QED
      BY <1>8, <1>13, <1>14, <2>1, <3>1
  <2>2. ASSUME NEW at \in 1 .. n, Pair(items[at]) = Pair(s), r[at].lens = s.lens,
               \A j \in 1 .. n : j # at => r[j] = items[j]
        PROVE  ShownLens(r[i], p, Upto(e, kind, m))
    <3>1. items[at].mUuid = u /\ items[at].kind = kind
      BY <1>1, <2>2 DEF Pair, u
    <3>2. CASE i = at
      <4>1. ASSUME NEW j \in Nat, LastAt(p.updates[kind], m, u, j) PROVE j = m
        BY <4>1, LastFacts DEF u
      <4> QED
        BY <1>7, <1>11, <2>2, <3>1, <3>2, <4>1 DEF ShownLens
    <3>3. CASE i # at
      <4>1. items[i].mUuid # u
        BY <1>9, <1>14, <3>1, <3>3
      <4> QED
        BY <1>8, <1>13, <1>14, <2>2, <3>3, <4>1
    <3> QED
      BY <3>2, <3>3
  <2> QED
    BY <1>5, <2>1, <2>2
<1>15. r \in Shown(F, p, d, Upto(e, kind, m))
  BY <1>4, <1>7, <1>8, <1>12, <1>14 DEF Shown
<1> QED
  BY <1>10, <1>15

-----------------------------------------------------------------------------
(* All entries: the folds are taken apart into their steps.                *)


\* The function the fold over the definitions of a kind chooses.
DefinesAll(f, items, data) ==
    f = [s \in SUBSET (DOMAIN data) |->
           IF s = {} THEN items ELSE ParseDefinition(f[s \ {Max(s)}], data[Max(s)])]

\* Folding the definitions goes through the lists one definition at a time.
LEMMA DefinitionFold ==
    ASSUME NEW items \in Seq(Subjects), NEW kind \in Kinds, NEW data \in Seq(DataOf(kind))
    PROVE  \E f : /\ FoldLeft(ParseDefinition, items, data) = f[1 .. Len(data)]
                  /\ f[{}] = items
                  /\ \A k \in 1 .. Len(data) : f[1 .. k] = ParseDefinition(f[1 .. k - 1], data[k])
<1> DEFINE n == Len(data)
           A == Seq(Subjects)
           G == [p \in A \X (1 .. n) |-> ParseDefinition(p[1], data[p[2]])]
<1>1. n \in Nat /\ DOMAIN data = 1 .. n /\ items \in A
  OBVIOUS
<1>2. ASSUME NEW a \in A, NEW i \in 1 .. n
      PROVE  G[<<a, i>>] = ParseDefinition(a, data[i]) /\ ParseDefinition(a, data[i]) \in A
  <2>1. data[i] \in DataOf(kind) /\ a \in Seq(Subjects)
    OBVIOUS
  <2>2. DefinitionDone(a, data[i], ParseDefinition(a, data[i]))
    BY <2>1, DefinitionDoes, Zenon
  <2>3. ParseDefinition(a, data[i]) \in Seq(Subjects)
    BY <2>2 DEF DefinitionDone
  <2> QED
    BY <2>3
<1> HIDE DEF n, A, G
<1>3. PICK g \in [SUBSET (1 .. n) -> A] : Folds(g, n, items, G)
  <2>1. n \in Nat /\ items \in A /\ \A a \in A : \A i \in 1 .. n : G[<<a, i>>] \in A
    BY <1>1, <1>2
  <2> QED
    BY <2>1, FoldExists, Zenon
<1>4. DefinesAll(g, items, data)
  <2>1. ASSUME NEW s \in SUBSET (1 .. n)
        PROVE  g[s] = IF s = {} THEN items ELSE ParseDefinition(g[s \ {Max(s)}], data[Max(s)])
    <3>1. g[s] = IF s = {} THEN items ELSE G[<<g[s \ {Max(s)}], Max(s)>>]
      BY <1>3 DEF Folds
    <3>2. s # {} => Max(s) \in 1 .. n /\ g[s \ {Max(s)}] \in A
      BY <1>1, <1>3, GreatestFacts
    <3> QED
      BY <1>2, <3>1, <3>2
  <2>2. g = [s \in SUBSET (1 .. n) |->
               IF s = {} THEN items ELSE ParseDefinition(g[s \ {Max(s)}], data[Max(s)])]
    BY <1>3, <2>1
  <2> QED
    BY <1>1, <2>2 DEF DefinesAll
<1> DEFINE f == CHOOSE h : DefinesAll(h, items, data)
<1>5. DefinesAll(f, items, data)
  BY <1>4, Zenon
<1>6. FoldLeft(ParseDefinition, items, data) = f[1 .. n]
  BY <1>1 DEF FoldLeft, MapThenFoldSet, DefinesAll
<1> HIDE DEF f
<1>7. \A s \in SUBSET (1 .. n) :
        f[s] = IF s = {} THEN items ELSE ParseDefinition(f[s \ {Max(s)}], data[Max(s)])
  BY <1>1, <1>5 DEF DefinesAll
<1>8. f[{}] = items
  BY <1>1, <1>7
<1>9. \A k \in 1 .. n : f[1 .. k] = ParseDefinition(f[1 .. k - 1], data[k])
  BY <1>1, <1>7, PlaceFacts
<1> QED
  BY <1>6, <1>8, <1>9 DEF n


\* The same of the updates.
UpdatesAll(f, items, updates) ==
    f = [s \in SUBSET (DOMAIN updates) |->
           IF s = {} THEN items ELSE ParseUpdate(f[s \ {Max(s)}], updates[Max(s)])]

\* Folding the updates goes through the lists one update at a time.
LEMMA UpdateFold ==
    ASSUME NEW items \in Seq(Subjects), NEW kind \in Kinds, NEW updates \in Seq(UpdatesOf(kind))
    PROVE  \E f : /\ FoldLeft(ParseUpdate, items, updates) = f[1 .. Len(updates)]
                  /\ f[{}] = items
                  /\ \A k \in 1 .. Len(updates) : f[1 .. k] = ParseUpdate(f[1 .. k - 1], updates[k])
<1> DEFINE n == Len(updates)
           A == Seq(Subjects)
           G == [p \in A \X (1 .. n) |-> ParseUpdate(p[1], updates[p[2]])]
<1>1. n \in Nat /\ DOMAIN updates = 1 .. n /\ items \in A
  OBVIOUS
<1>2. ASSUME NEW a \in A, NEW i \in 1 .. n
      PROVE  G[<<a, i>>] = ParseUpdate(a, updates[i]) /\ ParseUpdate(a, updates[i]) \in A
  <2>1. updates[i] \in UpdatesOf(kind) /\ a \in Seq(Subjects)
    OBVIOUS
  <2>2. UpdateDone(a, updates[i], ParseUpdate(a, updates[i]))
    BY <2>1, UpdateDoes, Zenon
  <2>3. ParseUpdate(a, updates[i]) \in Seq(Subjects)
    BY <2>2 DEF UpdateDone
  <2> QED
    BY <2>3
<1> HIDE DEF n, A, G
<1>3. PICK g \in [SUBSET (1 .. n) -> A] : Folds(g, n, items, G)
  <2>1. n \in Nat /\ items \in A /\ \A a \in A : \A i \in 1 .. n : G[<<a, i>>] \in A
    BY <1>1, <1>2
  <2> QED
    BY <2>1, FoldExists, Zenon
<1>4. UpdatesAll(g, items, updates)
  <2>1. ASSUME NEW s \in SUBSET (1 .. n)
        PROVE  g[s] = IF s = {} THEN items ELSE ParseUpdate(g[s \ {Max(s)}], updates[Max(s)])
    <3>1. g[s] = IF s = {} THEN items ELSE G[<<g[s \ {Max(s)}], Max(s)>>]
      BY <1>3 DEF Folds
    <3>2. s # {} => Max(s) \in 1 .. n /\ g[s \ {Max(s)}] \in A
      BY <1>1, <1>3, GreatestFacts
    <3> QED
      BY <1>2, <3>1, <3>2
  <2>2. g = [s \in SUBSET (1 .. n) |->
               IF s = {} THEN items ELSE ParseUpdate(g[s \ {Max(s)}], updates[Max(s)])]
    BY <1>3, <2>1
  <2> QED
    BY <1>1, <2>2 DEF UpdatesAll
<1> DEFINE f == CHOOSE h : UpdatesAll(h, items, updates)
<1>5. UpdatesAll(f, items, updates)
  BY <1>4, Zenon
<1>6. FoldLeft(ParseUpdate, items, updates) = f[1 .. n]
  BY <1>1 DEF FoldLeft, MapThenFoldSet, UpdatesAll
<1> HIDE DEF f
<1>7. \A s \in SUBSET (1 .. n) :
        f[s] = IF s = {} THEN items ELSE ParseUpdate(f[s \ {Max(s)}], updates[Max(s)])
  BY <1>1, <1>5 DEF UpdatesAll
<1>8. f[{}] = items
  BY <1>1, <1>7
<1>9. \A k \in 1 .. n : f[1 .. k] = ParseUpdate(f[1 .. k - 1], updates[k])
  BY <1>1, <1>7, PlaceFacts
<1> QED
  BY <1>6, <1>8, <1>9 DEF n

\* Lists stay lists of subjects.
LEMMA ListsStay ==
    ASSUME NEW items \in Seq(Subjects), NEW kind \in Kinds,
           NEW data \in Seq(DataOf(kind)), NEW updates \in Seq(UpdatesOf(kind))
    PROVE  /\ FoldLeft(ParseDefinition, items, data) \in Seq(Subjects)
           /\ FoldLeft(ParseUpdate, items, updates) \in Seq(Subjects)
<1>1. FoldLeft(ParseDefinition, items, data) \in Seq(Subjects)
  <2> DEFINE n == Len(data)
  <2>1. PICK f : /\ FoldLeft(ParseDefinition, items, data) = f[1 .. n]
                 /\ f[{}] = items
                 /\ \A k \in 1 .. n : f[1 .. k] = ParseDefinition(f[1 .. k - 1], data[k])
    BY DefinitionFold, Zenon
  <2>2. n \in Nat /\ \A k \in 1 .. n : data[k] \in DataOf(kind)
    OBVIOUS
  <2> HIDE DEF n
  <2>3. ASSUME NEW k \in 1 .. n, f[1 .. k - 1] \in Seq(Subjects)
        PROVE  f[1 .. k] \in Seq(Subjects)
    <3>1. DefinitionDone(f[1 .. k - 1], data[k], ParseDefinition(f[1 .. k - 1], data[k]))
      BY <2>2, <2>3, DefinitionDoes, Zenon
    <3> QED
      BY <2>1, <3>1 DEF DefinitionDone
  <2>4. f[1 .. n] \in Seq(Subjects)
    <3>1. f[{}] \in Seq(Subjects)
      BY <2>1
    <3> QED
      BY <2>2, <2>3, <3>1, FoldStays, Zenon
  <2> QED
    BY <2>1, <2>4
<1>2. FoldLeft(ParseUpdate, items, updates) \in Seq(Subjects)
  <2> DEFINE n == Len(updates)
  <2>1. PICK f : /\ FoldLeft(ParseUpdate, items, updates) = f[1 .. n]
                 /\ f[{}] = items
                 /\ \A k \in 1 .. n : f[1 .. k] = ParseUpdate(f[1 .. k - 1], updates[k])
    BY UpdateFold, Zenon
  <2>2. n \in Nat /\ \A k \in 1 .. n : updates[k] \in UpdatesOf(kind)
    OBVIOUS
  <2> HIDE DEF n
  <2>3. ASSUME NEW k \in 1 .. n, f[1 .. k - 1] \in Seq(Subjects)
        PROVE  f[1 .. k] \in Seq(Subjects)
    <3>1. UpdateDone(f[1 .. k - 1], updates[k], ParseUpdate(f[1 .. k - 1], updates[k]))
      BY <2>2, <2>3, UpdateDoes, Zenon
    <3> QED
      BY <2>1, <3>1 DEF UpdateDone
  <2>4. f[1 .. n] \in Seq(Subjects)
    <3>1. f[{}] \in Seq(Subjects)
      BY <2>1
    <3> QED
      BY <2>2, <2>3, <3>1, FoldStays, Zenon
  <2> QED
    BY <2>1, <2>4
<1> QED
  BY <1>1, <1>2

\* The uuids with kinds a packet defines of one kind, up to its m-th definition.
PairsUpto(data, m) == {Pair(data[j]) : j \in 1 .. m}

\* All definitions of a kind.
LEMMA DefinitionsAll ==
    ASSUME NEW p, NEW T, NEW F, NEW d \in [Kinds -> Nat], NEW e, NEW kind \in Kinds,
           NEW data \in Seq(DataOf(kind)), data = p.data[kind], d[kind] = 0, e[kind] = 0,
           T \cup PairsUpto(data, Len(data)) \subseteq F,
           NEW items, items \in Listed(T), items \in Shown(F, p, d, e)
    PROVE  /\ FoldLeft(ParseDefinition, items, data) \in Listed(T \cup PairsUpto(data, Len(data)))
           /\ FoldLeft(ParseDefinition, items, data) \in Shown(F, p, Upto(d, kind, Len(data)), e)
<1> DEFINE n == Len(data)
           As == [m \in 0 .. n |->
                   Listed(T \cup PairsUpto(data, m)) \cap Shown(F, p, Upto(d, kind, m), e)]
<1>0. items \in Seq(Subjects)
  BY DEF Listed
<1>1. PICK f : /\ FoldLeft(ParseDefinition, items, data) = f[1 .. n]
               /\ f[{}] = items
               /\ \A k \in 1 .. n : f[1 .. k] = ParseDefinition(f[1 .. k - 1], data[k])
  BY <1>0, DefinitionFold, ZenonT(30)
<1>2. n \in Nat /\ \A k \in 1 .. n : data[k] \in DataOf(kind)
  OBVIOUS
<1>3. T \cup PairsUpto(data, n) \subseteq F
  OBVIOUS
<1> HIDE DEF n
<1>4. \A m \in 0 .. n : As[m] =
         Listed(T \cup PairsUpto(data, m)) \cap Shown(F, p, Upto(d, kind, m), e)
  OBVIOUS
<1> HIDE DEF As
<1>5. Upto(d, kind, 0) = d /\ PairsUpto(data, 0) = {}
  <2>1. 1 .. 0 = {}
    OBVIOUS
  <2> QED
    BY <2>1 DEF Upto, PairsUpto
<1>6. f[{}] \in As[0]
  <2>1. T \cup PairsUpto(data, 0) = T /\ 0 \in 0 .. n
    BY <1>2, <1>5
  <2> QED
    BY <1>1, <1>4, <1>5, <2>1
<1>7. ASSUME NEW k \in 1 .. n, f[1 .. k - 1] \in As[k - 1] PROVE f[1 .. k] \in As[k]
  <2> DEFINE l == f[1 .. k - 1]
             dk == Upto(d, kind, k - 1)
             Tk == T \cup PairsUpto(data, k - 1)
             r == ParseDefinition(l, data[k])
  <2>1. k \in Nat /\ k # 0 /\ k \in 0 .. n /\ k - 1 \in 0 .. n
    BY <1>2
  <2>2. l \in Listed(Tk) /\ l \in Shown(F, p, dk, e)
    BY <1>4, <1>7, <2>1
  <2>3. dk[kind] = k - 1 /\ data[k] = p.data[kind][k] /\ data[k] \in DataOf(kind)
    BY <1>2, <1>7 DEF Upto
  <2>4. Upto(dk, kind, k) = Upto(d, kind, k)
    BY DEF Upto
  <2>5. Tk \cup {Pair(data[k])} = T \cup PairsUpto(data, k)
    <3>1. 1 .. k = 1 .. k - 1 \cup {k}
      BY <2>1
    <3>2. PairsUpto(data, k) = PairsUpto(data, k - 1) \cup {Pair(data[k])}
      BY <3>1 DEF PairsUpto
    <3> QED
      BY <3>2
  <2>6. T \cup PairsUpto(data, k) \subseteq F
    <3>1. 1 .. k \subseteq 1 .. n
      BY <1>2
    <3>2. PairsUpto(data, k) \subseteq PairsUpto(data, n)
      BY <3>1 DEF PairsUpto
    <3> QED
      BY <1>3, <3>2
  <2>7. f[1 .. k] = r
    BY <1>1
  <2> HIDE DEF l, dk, Tk, r
  <2>8. DefinitionDone(l, data[k], r)
    <3>1. l \in Seq(Subjects)
      BY <2>2 DEF Listed
    <3> QED
      BY <2>3, <3>1, DefinitionDoes, Zenon DEF r
  <2>9. Tk \cup {Pair(data[k])} \subseteq F
    BY <2>5, <2>6
  <2>10. r \in Listed(Tk \cup {Pair(data[k])}) /\ r \in Shown(F, p, Upto(dk, kind, k), e)
    BY <2>1, <2>2, <2>3, <2>8, <2>9, DefinitionStep, Zenon
  <2> QED
    BY <1>4, <2>1, <2>4, <2>5, <2>7, <2>10
<1>8. f[1 .. n] \in As[n]
  BY <1>2, <1>6, <1>7, FoldKeeps, Zenon
<1>9. n \in 0 .. n
  BY <1>2
<1>10. /\ f[1 .. n] \in Listed(T \cup PairsUpto(data, n))
       /\ f[1 .. n] \in Shown(F, p, Upto(d, kind, n), e)
  BY <1>4, <1>8, <1>9
<1> QED
  BY <1>1, <1>10, Zenon DEF n

\* All updates of a kind.
LEMMA UpdatesAllIn ==
    ASSUME NEW p, NEW T, NEW F, NEW d, NEW e \in [Kinds -> Nat], NEW kind \in Kinds,
           NEW updates \in Seq(UpdatesOf(kind)), updates = p.updates[kind], e[kind] = 0,
           T \subseteq F, NEW items, items \in Listed(T), items \in Shown(F, p, d, e)
    PROVE  /\ FoldLeft(ParseUpdate, items, updates) \in Listed(T)
           /\ FoldLeft(ParseUpdate, items, updates) \in Shown(F, p, d, Upto(e, kind, Len(updates)))
<1> DEFINE n == Len(updates)
           As == [m \in 0 .. n |-> Listed(T) \cap Shown(F, p, d, Upto(e, kind, m))]
<1>0. items \in Seq(Subjects)
  BY DEF Listed
<1>1. PICK f : /\ FoldLeft(ParseUpdate, items, updates) = f[1 .. n]
               /\ f[{}] = items
               /\ \A k \in 1 .. n : f[1 .. k] = ParseUpdate(f[1 .. k - 1], updates[k])
  BY <1>0, UpdateFold, ZenonT(30)
<1>2. n \in Nat /\ \A k \in 1 .. n : updates[k] \in UpdatesOf(kind)
  OBVIOUS
<1> HIDE DEF n
<1>4. \A m \in 0 .. n : As[m] = Listed(T) \cap Shown(F, p, d, Upto(e, kind, m))
  OBVIOUS
<1> HIDE DEF As
<1>5. Upto(e, kind, 0) = e
  BY DEF Upto
<1>6. f[{}] \in As[0]
  <2>1. 0 \in 0 .. n
    BY <1>2
  <2> QED
    BY <1>1, <1>4, <1>5, <2>1
<1>7. ASSUME NEW k \in 1 .. n, f[1 .. k - 1] \in As[k - 1] PROVE f[1 .. k] \in As[k]
  <2> DEFINE l == f[1 .. k - 1]
             ek == Upto(e, kind, k - 1)
             r == ParseUpdate(l, updates[k])
  <2>1. k \in Nat /\ k # 0 /\ k \in 0 .. n /\ k - 1 \in 0 .. n
    BY <1>2
  <2>2. l \in Listed(T) /\ l \in Shown(F, p, d, ek)
    BY <1>4, <1>7, <2>1
  <2>3. ek[kind] = k - 1 /\ updates[k] = p.updates[kind][k] /\ updates[k] \in UpdatesOf(kind)
    BY <1>2, <1>7 DEF Upto
  <2>4. Upto(ek, kind, k) = Upto(e, kind, k)
    BY DEF Upto
  <2>5. f[1 .. k] = r
    BY <1>1
  <2> HIDE DEF l, ek, r
  <2>6. UpdateDone(l, updates[k], r)
    <3>1. l \in Seq(Subjects)
      BY <2>2 DEF Listed
    <3> QED
      BY <2>3, <3>1, UpdateDoes, Zenon DEF r
  <2>7. r \in Listed(T) /\ r \in Shown(F, p, d, Upto(ek, kind, k))
    BY <2>1, <2>2, <2>3, <2>6, UpdateStep, Zenon
  <2> QED
    BY <1>4, <2>1, <2>4, <2>5, <2>7
<1>8. f[1 .. n] \in As[n]
  BY <1>2, <1>6, <1>7, FoldKeeps, Zenon
<1>9. n \in 0 .. n
  BY <1>2
<1>10. f[1 .. n] \in Listed(T) /\ f[1 .. n] \in Shown(F, p, d, Upto(e, kind, n))
  BY <1>4, <1>8, <1>9
<1> QED
  BY <1>1, <1>10, Zenon DEF n

\* One kind of the packet that is parsed.
KindPairs(kind) == PairsUpto(wire.data[kind], Len(wire.data[kind]))

\* Parsing one kind's definitions and updates adds that kind's pairs and shows its values.
LEMMA KindStep ==
    ASSUME wire \in MadePackets, NEW T, NEW F, NEW d \in [Kinds -> Nat], NEW e \in [Kinds -> Nat],
           NEW kind \in Kinds, d[kind] = 0, e[kind] = 0, T \cup KindPairs(kind) \subseteq F,
           NEW items, items \in Listed(T), items \in Shown(F, wire, d, e)
    PROVE  /\ ParseKind(items, kind) \in Listed(T \cup KindPairs(kind))
           /\ ParseKind(items, kind) \in Shown(F, wire, Upto(d, kind, Len(wire.data[kind])),
                                               Upto(e, kind, Len(wire.updates[kind])))
<1> DEFINE data == wire.data[kind]
           updates == wire.updates[kind]
           between == FoldLeft(ParseDefinition, items, data)
           dn == Upto(d, kind, Len(data))
           after == FoldLeft(ParseUpdate, between, updates)
<1>1. data \in Seq(DataOf(kind)) /\ updates \in Seq(UpdatesOf(kind))
  BY DEF MadePackets
<1>2. ParseKind(items, kind) = after
  BY DEF ParseKind
<1>3. KindPairs(kind) = PairsUpto(data, Len(data)) /\ data = wire.data[kind] /\ updates = wire.updates[kind]
  BY DEF KindPairs
<1> HIDE DEF data, updates
<1>4. T \cup PairsUpto(data, Len(data)) \subseteq F
  BY <1>3
<1>5. between \in Listed(T \cup PairsUpto(data, Len(data))) /\ between \in Shown(F, wire, dn, e)
  BY <1>1, <1>3, <1>4, DefinitionsAll, Zenon
<1> HIDE DEF between, dn
<1>6. /\ after \in Listed(T \cup PairsUpto(data, Len(data)))
      /\ after \in Shown(F, wire, dn, Upto(e, kind, Len(updates)))
  BY <1>1, <1>3, <1>4, <1>5, UpdatesAllIn, Zenon
<1> HIDE DEF after
<1> QED
  BY <1>2, <1>3, <1>6 DEF dn


\* The function the fold over the kinds chooses.
ParsesKinds(f, items, kinds) ==
    f = [s \in SUBSET (DOMAIN kinds) |->
           IF s = {} THEN items ELSE ParseKind(f[s \ {Max(s)}], kinds[Max(s)])]

\* Folding the kinds goes through the lists one kind at a time.
LEMMA KindFold ==
    ASSUME wire \in MadePackets, NEW items \in Seq(Subjects), NEW kinds \in Seq(Kinds)
    PROVE  \E f : /\ FoldLeft(ParseKind, items, kinds) = f[1 .. Len(kinds)]
                  /\ f[{}] = items
                  /\ \A k \in 1 .. Len(kinds) : f[1 .. k] = ParseKind(f[1 .. k - 1], kinds[k])
<1> DEFINE n == Len(kinds)
           A == Seq(Subjects)
           G == [p \in A \X (1 .. n) |-> ParseKind(p[1], kinds[p[2]])]
<1>1. n \in Nat /\ DOMAIN kinds = 1 .. n /\ items \in A
  OBVIOUS
<1>2. ASSUME NEW a \in A, NEW i \in 1 .. n
      PROVE  G[<<a, i>>] = ParseKind(a, kinds[i]) /\ ParseKind(a, kinds[i]) \in A
  <2>1. kinds[i] \in Kinds /\ a \in Seq(Subjects)
    OBVIOUS
  <2>2. /\ wire.data[kinds[i]] \in Seq(DataOf(kinds[i]))
        /\ wire.updates[kinds[i]] \in Seq(UpdatesOf(kinds[i]))
    BY <2>1 DEF MadePackets
  <2>3. FoldLeft(ParseDefinition, a, wire.data[kinds[i]]) \in Seq(Subjects)
    BY <2>1, <2>2, ListsStay, Zenon
  <2>4. FoldLeft(ParseUpdate, FoldLeft(ParseDefinition, a, wire.data[kinds[i]]),
                 wire.updates[kinds[i]]) \in Seq(Subjects)
    BY <2>1, <2>2, <2>3, ListsStay, Zenon
  <2>5. ParseKind(a, kinds[i]) \in Seq(Subjects)
    BY <2>4 DEF ParseKind
  <2> QED
    BY <2>5
<1> HIDE DEF n, A, G
<1>3. PICK g \in [SUBSET (1 .. n) -> A] : Folds(g, n, items, G)
  <2>1. n \in Nat /\ items \in A /\ \A a \in A : \A i \in 1 .. n : G[<<a, i>>] \in A
    BY <1>1, <1>2
  <2> QED
    BY <2>1, FoldExists, Zenon
<1>4. ParsesKinds(g, items, kinds)
  <2>1. ASSUME NEW s \in SUBSET (1 .. n)
        PROVE  g[s] = IF s = {} THEN items ELSE ParseKind(g[s \ {Max(s)}], kinds[Max(s)])
    <3>1. g[s] = IF s = {} THEN items ELSE G[<<g[s \ {Max(s)}], Max(s)>>]
      BY <1>3 DEF Folds
    <3>2. s # {} => Max(s) \in 1 .. n /\ g[s \ {Max(s)}] \in A
      BY <1>1, <1>3, GreatestFacts
    <3> QED
      BY <1>2, <3>1, <3>2
  <2>2. g = [s \in SUBSET (1 .. n) |->
               IF s = {} THEN items ELSE ParseKind(g[s \ {Max(s)}], kinds[Max(s)])]
    BY <1>3, <2>1
  <2> QED
    BY <1>1, <2>2 DEF ParsesKinds
<1> DEFINE f == CHOOSE h : ParsesKinds(h, items, kinds)
<1>5. ParsesKinds(f, items, kinds)
  BY <1>4, Zenon
<1>6. FoldLeft(ParseKind, items, kinds) = f[1 .. n]
  BY <1>1 DEF FoldLeft, MapThenFoldSet, ParsesKinds
<1> HIDE DEF f
<1>7. \A s \in SUBSET (1 .. n) :
        f[s] = IF s = {} THEN items ELSE ParseKind(f[s \ {Max(s)}], kinds[Max(s)])
  BY <1>1, <1>5 DEF ParsesKinds
<1>8. f[{}] = items
  BY <1>1, <1>7
<1>9. \A k \in 1 .. n : f[1 .. k] = ParseKind(f[1 .. k - 1], kinds[k])
  BY <1>1, <1>7, PlaceFacts
<1> QED
  BY <1>6, <1>8, <1>9 DEF n

\* The whole packet.
LEMMA PacketTakenIn ==
    ASSUME wire \in MadePackets, NEW T, NEW F, T \cup Defined \subseteq F, NEW items, items \in Listed(T)
    PROVE  /\ FoldLeft(ParseKind, items, InOrder) \in Listed(T \cup Defined)
           /\ FoldLeft(ParseKind, items, InOrder) \in
                Shown(F, wire, [k \in Kinds |-> Len(wire.data[k])],
                               [k \in Kinds |-> Len(wire.updates[k])])
<1> DEFINE P == "PerformerSubject"
           R == "RigidbodySubject"
           C == "CameraSubject"
           z == [k \in Kinds |-> 0]
           nd(k) == Len(wire.data[k])
           ne(k) == Len(wire.updates[k])
           d1 == Upto(z, P, nd(P))
           e1 == Upto(z, P, ne(P))
           d2 == Upto(d1, R, nd(R))
           e2 == Upto(e1, R, ne(R))
           d3 == Upto(d2, C, nd(C))
           e3 == Upto(e2, C, ne(C))
           T1 == T \cup KindPairs(P)
           T2 == T1 \cup KindPairs(R)
           T3 == T2 \cup KindPairs(C)
<1>1. P \in Kinds /\ R \in Kinds /\ C \in Kinds /\ P # R /\ P # C /\ R # C
  BY DEF Kinds
<1>2. \A k \in Kinds : nd(k) \in Nat /\ ne(k) \in Nat
  <2>1. \A k \in Kinds : wire.data[k] \in Seq(DataOf(k)) /\ wire.updates[k] \in Seq(UpdatesOf(k))
    BY DEF MadePackets
  <2> QED
    BY <2>1
<1> HIDE DEF nd, ne
<1>3. /\ z \in [Kinds -> Nat] /\ z[P] = 0
      /\ d1 \in [Kinds -> Nat] /\ e1 \in [Kinds -> Nat] /\ d1[R] = 0 /\ e1[R] = 0
      /\ d2 \in [Kinds -> Nat] /\ e2 \in [Kinds -> Nat] /\ d2[C] = 0 /\ e2[C] = 0
      /\ d3 = [k \in Kinds |-> nd(k)] /\ e3 = [k \in Kinds |-> ne(k)]
  <2>1. z \in [Kinds -> Nat] /\ z[P] = 0 /\ z[R] = 0 /\ z[C] = 0
    BY <1>1
  <2> HIDE DEF z
  <2>2. /\ d1 \in [Kinds -> Nat] /\ d1[P] = nd(P) /\ d1[R] = 0 /\ d1[C] = 0
        /\ e1 \in [Kinds -> Nat] /\ e1[P] = ne(P) /\ e1[R] = 0 /\ e1[C] = 0
    BY <1>1, <1>2, <2>1 DEF Upto
  <2> HIDE DEF d1, e1
  <2>3. /\ d2 \in [Kinds -> Nat] /\ d2[P] = nd(P) /\ d2[R] = nd(R) /\ d2[C] = 0
        /\ e2 \in [Kinds -> Nat] /\ e2[P] = ne(P) /\ e2[R] = ne(R) /\ e2[C] = 0
    BY <1>1, <1>2, <2>2 DEF Upto
  <2> HIDE DEF d2, e2
  <2>4. d3 = [k \in Kinds |-> nd(k)] /\ e3 = [k \in Kinds |-> ne(k)]
    BY <1>1, <2>3 DEF Upto, Kinds
  <2> QED
    BY <2>1, <2>2, <2>3, <2>4
<1>4. Defined = KindPairs(P) \cup KindPairs(R) \cup KindPairs(C)
  <2> DEFINE D(k) == {<<s.mUuid, k>> : s \in ToSet(wire.data[k])}
  <2>1. ASSUME NEW k \in Kinds PROVE D(k) = KindPairs(k)
    <3> DEFINE data == wire.data[k]
    <3>1. data \in Seq(DataOf(k))
      BY DEF MadePackets
    <3> HIDE DEF data
    <3>2. DOMAIN data = 1 .. Len(data) /\ \A j \in 1 .. Len(data) : data[j].kind = k
      <4>1. \A x \in DataOf(k) : x.kind = k
        BY DEF DataOf, OfOneKind, SubjectData
      <4> QED
        BY <3>1, <4>1
    <3>3. D(k) = {<<data[j].mUuid, k>> : j \in 1 .. Len(data)}
      BY <3>2 DEF ToSet, data
    <3>4. KindPairs(k) = {<<data[j].mUuid, k>> : j \in 1 .. Len(data)}
      BY <3>2 DEF KindPairs, PairsUpto, Pair, data
    <3> QED
      BY <3>3, <3>4
  <2>2. Defined = UNION {D(k) : k \in Kinds}
    BY DEF Defined
  <2> HIDE DEF D
  <2>3. Defined = D(P) \cup D(R) \cup D(C)
    BY <2>2 DEF Kinds
  <2> QED
    BY <1>1, <2>1, <2>3
<1>5. T3 = T \cup Defined /\ T1 \subseteq F /\ T2 \subseteq F /\ T3 \subseteq F
  BY <1>4
<1>6. items \in Shown(F, wire, z, z) /\ items \in Seq(Subjects)
  <2>1. items \in Seq(Subjects)
    BY DEF Listed
  <2>2. \A i \in 1 .. Len(items) : items[i].kind \in Kinds
    <3>1. \A i \in 1 .. Len(items) : items[i] \in Subjects
      BY <2>1
    <3> QED
      BY <3>1 DEF Subjects
  <2>3. \A entries, u, j : ~LastAt(entries, 0, u, j)
    BY DEF LastAt
  <2>4. \A i \in 1 .. Len(items) : ShownData(items[i], wire, z) /\ ShownLens(items[i], wire, z)
    BY <2>2, <2>3 DEF ShownData, ShownLens
  <2> QED
    BY <2>1, <2>4 DEF Shown
<1>7. InOrder \in Seq(Kinds) /\ Len(InOrder) = 3
      /\ InOrder[1] = P /\ InOrder[2] = R /\ InOrder[3] = C
  BY <1>1 DEF InOrder
<1>8. PICK f : /\ FoldLeft(ParseKind, items, InOrder) = f[1 .. Len(InOrder)]
               /\ f[{}] = items
               /\ \A k \in 1 .. Len(InOrder) : f[1 .. k] = ParseKind(f[1 .. k - 1], InOrder[k])
  BY <1>6, <1>7, KindFold, Zenon
<1>9. /\ FoldLeft(ParseKind, items, InOrder) = f[1 .. 3] /\ f[1 .. 1] = ParseKind(items, P)
      /\ f[1 .. 2] = ParseKind(f[1 .. 1], R) /\ f[1 .. 3] = ParseKind(f[1 .. 2], C)
  <2>1. 1 .. 1 - 1 = {} /\ 1 .. 2 - 1 = 1 .. 1 /\ 1 .. 3 - 1 = 1 .. 2
    OBVIOUS
  <2>2. 1 \in 1 .. 3 /\ 2 \in 1 .. 3 /\ 3 \in 1 .. 3
    OBVIOUS
  <2> QED
    BY <1>7, <1>8, <2>1, <2>2
<1> HIDE DEF z, P, R, C
<1>10. f[1 .. 1] \in Listed(T1) /\ f[1 .. 1] \in Shown(F, wire, d1, e1)
  <2>1. /\ z \in [Kinds -> Nat] /\ z \in [Kinds -> Nat] /\ P \in Kinds
        /\ z[P] = 0 /\ z[P] = 0 /\ T \cup KindPairs(P) \subseteq F
        /\ items \in Listed(T) /\ items \in Shown(F, wire, z, z)
    BY <1>1, <1>3, <1>5, <1>6
  <2>2. /\ ParseKind(items, P) \in Listed(T \cup KindPairs(P))
        /\ ParseKind(items, P) \in Shown(F, wire, Upto(z, P, Len(wire.data[P])),
                                           Upto(z, P, Len(wire.updates[P])))
    <3> QED
      BY <2>1, KindStep, Zenon
  <2>3. f[1 .. 1] = ParseKind(items, P)
    BY <1>9
  <2> QED
    BY <2>2, <2>3, Zenon DEF nd, ne
<1> HIDE DEF d1, e1
<1>11. f[1 .. 2] \in Listed(T2) /\ f[1 .. 2] \in Shown(F, wire, d2, e2)
  <2>1. /\ d1 \in [Kinds -> Nat] /\ e1 \in [Kinds -> Nat] /\ R \in Kinds
        /\ d1[R] = 0 /\ e1[R] = 0 /\ T1 \cup KindPairs(R) \subseteq F
        /\ f[1 .. 1] \in Listed(T1) /\ f[1 .. 1] \in Shown(F, wire, d1, e1)
    BY <1>1, <1>3, <1>5, <1>10
  <2>2. /\ ParseKind(f[1 .. 1], R) \in Listed(T1 \cup KindPairs(R))
        /\ ParseKind(f[1 .. 1], R) \in Shown(F, wire, Upto(d1, R, Len(wire.data[R])),
                                           Upto(e1, R, Len(wire.updates[R])))
    <3> HIDE DEF T1
    <3> QED
      BY <2>1, KindStep, Zenon
  <2>3. f[1 .. 2] = ParseKind(f[1 .. 1], R)
    BY <1>9
  <2> QED
    BY <2>2, <2>3, Zenon DEF nd, ne
<1> HIDE DEF d2, e2
<1>12. f[1 .. 3] \in Listed(T3) /\ f[1 .. 3] \in Shown(F, wire, d3, e3)
  <2>1. /\ d2 \in [Kinds -> Nat] /\ e2 \in [Kinds -> Nat] /\ C \in Kinds
        /\ d2[C] = 0 /\ e2[C] = 0 /\ T2 \cup KindPairs(C) \subseteq F
        /\ f[1 .. 2] \in Listed(T2) /\ f[1 .. 2] \in Shown(F, wire, d2, e2)
    BY <1>1, <1>3, <1>5, <1>11
  <2>2. /\ ParseKind(f[1 .. 2], C) \in Listed(T2 \cup KindPairs(C))
        /\ ParseKind(f[1 .. 2], C) \in Shown(F, wire, Upto(d2, C, Len(wire.data[C])),
                                           Upto(e2, C, Len(wire.updates[C])))
    <3> HIDE DEF T2
    <3> QED
      BY <2>1, KindStep, Zenon
  <2>3. f[1 .. 3] = ParseKind(f[1 .. 2], C)
    BY <1>9
  <2> QED
    BY <2>2, <2>3, Zenon DEF nd, ne
<1> HIDE DEF T1, T2, T3, d3, e3
<1> QED
  BY <1>3, <1>5, <1>9, <1>12, Zenon DEF nd, ne

-----------------------------------------------------------------------------
(* The sender's packets.                                                   *)

\* The function the fold of OfKind chooses.
Takes(f, kind) ==
    f = [s \in SUBSET (DOMAIN out) |->
           IF s = {} THEN <<>>
           ELSE IF out[Max(s)].mEnabled /\ out[Max(s)].kind = kind
           THEN Append(f[s \ {Max(s)}], out[Max(s)]) ELSE f[s \ {Max(s)}]]

\* The part of the list that is of one kind is a list of subjects of that kind.
LEMMA OfKindFacts ==
    ASSUME out \in Seq(Subjects), NEW kind
    PROVE  OfKind(kind) \in Seq(OfOneKind(kind))
<1> DEFINE n == Len(out)
           A == Seq(OfOneKind(kind))
           Take(taken, s) == IF s.mEnabled /\ s.kind = kind THEN Append(taken, s) ELSE taken
           G == [p \in A \X (1 .. n) |-> Take(p[1], out[p[2]])]
<1>1. n \in Nat /\ DOMAIN out = 1 .. n /\ \A i \in 1 .. n : out[i] \in Subjects
  OBVIOUS
<1>2. ASSUME NEW a \in A, NEW i \in 1 .. n
      PROVE  G[<<a, i>>] = Take(a, out[i]) /\ Take(a, out[i]) \in A
  <2>1. Take(a, out[i]) \in A
    <3>1. CASE out[i].mEnabled /\ out[i].kind = kind
      <4>1. out[i] \in OfOneKind(kind)
        BY <1>1, <3>1 DEF OfOneKind
      <4> QED
        BY <3>1, <4>1
    <3> QED
      BY <3>1
  <2> QED
    BY <2>1
<1>3. <<>> \in A
  OBVIOUS
<1> HIDE DEF n, A, G
<1>4. PICK g \in [SUBSET (1 .. n) -> A] : Folds(g, n, <<>>, G)
  <2>1. n \in Nat /\ <<>> \in A /\ \A a \in A : \A i \in 1 .. n : G[<<a, i>>] \in A
    BY <1>1, <1>2, <1>3
  <2> QED
    BY <2>1, FoldExists, Zenon
<1>5. Takes(g, kind)
  <2>1. ASSUME NEW s \in SUBSET (1 .. n)
        PROVE  g[s] = IF s = {} THEN <<>>
               ELSE IF out[Max(s)].mEnabled /\ out[Max(s)].kind = kind
               THEN Append(g[s \ {Max(s)}], out[Max(s)]) ELSE g[s \ {Max(s)}]
    <3>1. g[s] = IF s = {} THEN <<>> ELSE G[<<g[s \ {Max(s)}], Max(s)>>]
      BY <1>4 DEF Folds
    <3>2. s # {} => Max(s) \in 1 .. n /\ g[s \ {Max(s)}] \in A
      BY <1>1, <1>4, GreatestFacts
    <3> QED
      BY <1>2, <3>1, <3>2
  <2>2. g = [s \in SUBSET (1 .. n) |->
               IF s = {} THEN <<>>
               ELSE IF out[Max(s)].mEnabled /\ out[Max(s)].kind = kind
               THEN Append(g[s \ {Max(s)}], out[Max(s)]) ELSE g[s \ {Max(s)}]]
    BY <1>4, <2>1
  <2> QED
    BY <1>1, <2>2 DEF Takes
<1> DEFINE f == CHOOSE h : Takes(h, kind)
<1>6. Takes(f, kind)
  BY <1>5, Zenon
<1>7. OfKind(kind) = f[1 .. n]
  BY <1>1 DEF OfKind, FoldLeft, MapThenFoldSet, Takes
<1> HIDE DEF f
<1>8. \A s \in SUBSET (1 .. n) :
        f[s] = IF s = {} THEN <<>>
               ELSE IF out[Max(s)].mEnabled /\ out[Max(s)].kind = kind
               THEN Append(f[s \ {Max(s)}], out[Max(s)]) ELSE f[s \ {Max(s)}]
  BY <1>1, <1>6 DEF Takes
<1>9. f[{}] \in A
  BY <1>1, <1>3, <1>8
<1>10. ASSUME NEW k \in 1 .. n, f[1 .. k - 1] \in A PROVE f[1 .. k] \in A
  <2>1. f[1 .. k] = Take(f[1 .. k - 1], out[k])
    BY <1>1, <1>8, PlaceFacts
  <2> QED
    BY <1>2, <1>10, <2>1
<1>11. f[1 .. n] \in A
  BY <1>1, <1>9, <1>10, FoldStays
<1> QED
  BY <1>7, <1>11 DEF A

\* CreateRoot returns a packet a writer can make.
LEMMA CreateRootFacts ==
    ASSUME out \in Seq(Subjects), sends \in 0 .. MaxSends, sends < MaxSends,
           NEW full, NEW context \in BOOLEAN, NEW envelope \in BOOLEAN
    PROVE  CreateRoot(full, context, envelope) \in MadePackets
<1> DEFINE data == [k \in Kinds |-> IF full THEN Each(SubjectData, OfKind(k)) ELSE <<>>]
           updates == [k \in Kinds |-> Each(SubjectUpdate, OfKind(k))]
           p == CreateRoot(full, context, envelope)
<1>1. ASSUME NEW k \in Kinds
      PROVE  /\ Each(SubjectData, OfKind(k)) \in Seq(DataOf(k))
             /\ Each(SubjectUpdate, OfKind(k)) \in Seq(UpdatesOf(k))
  <2> DEFINE o == OfKind(k)
  <2>1. o \in Seq(OfOneKind(k))
    BY OfKindFacts
  <2> HIDE DEF o
  <2>2. Len(o) \in Nat /\ DOMAIN o = 1 .. Len(o) /\ \A i \in DOMAIN o : o[i] \in OfOneKind(k)
    BY <2>1
  <2>3. [i \in DOMAIN o |-> SubjectData(o[i])] \in Seq(DataOf(k))
    <3>1. \A i \in DOMAIN o : SubjectData(o[i]) \in DataOf(k)
      BY <2>2 DEF DataOf
    <3> QED
      BY <2>2, <3>1
  <2>4. [i \in DOMAIN o |-> SubjectUpdate(o[i])] \in Seq(UpdatesOf(k))
    <3>1. \A i \in DOMAIN o : SubjectUpdate(o[i]) \in UpdatesOf(k)
      BY <2>2 DEF UpdatesOf
    <3> QED
      BY <2>2, <3>1
  <2> QED
    BY <2>3, <2>4 DEF Each, o
<1>2. \A k \in Kinds : data[k] \in Seq(DataOf(k)) /\ updates[k] \in Seq(UpdatesOf(k))
  <2>1. \A k \in Kinds : <<>> \in Seq(DataOf(k))
    OBVIOUS
  <2> QED
    BY <1>1, <2>1
<1>3. \A k \in Kinds : /\ Seq(DataOf(k)) \subseteq Seq({SubjectData(s) : s \in Subjects})
                      /\ Seq(UpdatesOf(k)) \subseteq Seq({SubjectUpdate(s) : s \in Subjects})
  <2>1. \A k \in Kinds : /\ DataOf(k) \subseteq {SubjectData(s) : s \in Subjects}
                        /\ UpdatesOf(k) \subseteq {SubjectUpdate(s) : s \in Subjects}
    BY DEF DataOf, UpdatesOf, OfOneKind
  <2>2. \A A, B : A \subseteq B => Seq(A) \subseteq Seq(B)
    OBVIOUS
  <2> QED
    BY <2>1, <2>2, Zenon
<1> HIDE DEF data, updates
<1>4. /\ data \in [Kinds -> Seq({SubjectData(s) : s \in Subjects})]
      /\ updates \in [Kinds -> Seq({SubjectUpdate(s) : s \in Subjects})]
  <2> DEFINE SD == Seq({SubjectData(s) : s \in Subjects})
             SU == Seq({SubjectUpdate(s) : s \in Subjects})
  <2>1. \A k \in Kinds : data[k] \in SD /\ updates[k] \in SU
    BY <1>2, <1>3, Zenon
  <2> HIDE DEF SD, SU
  <2>2. data \in [Kinds -> SD] /\ updates \in [Kinds -> SU]
    BY <2>1, Zenon DEF data, updates
  <2> QED
    BY <2>2 DEF SD, SU
<1>5. p = [made |-> sends + 1, context |-> context,
           envelope |-> IF envelope THEN sends + 1 ELSE 0, data |-> data, updates |-> updates]
  BY DEF CreateRoot, data, updates
<1>6. /\ sends + 1 \in 1 .. MaxSends /\ (IF envelope THEN sends + 1 ELSE 0) \in 0 .. MaxSends
      /\ (IF envelope THEN sends + 1 ELSE 0) \in {0, sends + 1}
  BY ListAssumption
<1> HIDE DEF p
<1>7. p \in ListPackets
  <2> DEFINE SD == Seq({SubjectData(s) : s \in Subjects})
             SU == Seq({SubjectUpdate(s) : s \in Subjects})
  <2> HIDE DEF SD, SU
  <2>1. data \in [Kinds -> SD] /\ updates \in [Kinds -> SU]
    BY <1>4 DEF SD, SU
  <2>2. p \in [made : 1 .. MaxSends, context : BOOLEAN, envelope : 0 .. MaxSends,
                data : [Kinds -> SD], updates : [Kinds -> SU]]
    BY <1>5, <1>6, <2>1
  <2> QED
    BY <2>2 DEF ListPackets, SD, SU
<1>8. p.made = sends + 1 /\ p.envelope \in {0, sends + 1} /\ p.data = data /\ p.updates = updates
  BY <1>5, <1>6
<1>9. p \in MadePackets
  BY <1>2, <1>7, <1>8 DEF MadePackets
<1> QED
  BY <1>9 DEF p

-----------------------------------------------------------------------------
(* The invariant.                                                          *)

Told == {q \in SubjectUuids \X Kinds : q[2] \in told[q[1]]}

ListsInv ==
    /\ out \in Seq(Subjects) /\ Len(out) <= MaxSubjects
    /\ edits \in 0 .. MaxEdits /\ sends \in 0 .. MaxSends /\ wire \in MadePackets \cup {NoPacket}
    /\ mContextSet \in BOOLEAN /\ told \in [SubjectUuids -> SUBSET Kinds]
    /\ mItems \in Listed(Told)
    /\ mTimeEnvelope \in {0, mTime}

\* There are finitely many kinds.
LEMMA KindsFinite == IsFiniteSet(Kinds)
<1> DEFINE A == {} \cup {"PerformerSubject"}
           B == A \cup {"RigidbodySubject"}
<1>1. IsFiniteSet(A)
  BY FS_EmptySet, FS_AddElement
<1> HIDE DEF A
<1>2. IsFiniteSet(B)
  BY <1>1, FS_AddElement
<1> HIDE DEF B
<1>3. IsFiniteSet(B \cup {"CameraSubject"})
  BY <1>2, FS_AddElement
<1>4. Kinds = B \cup {"CameraSubject"}
  BY DEF Kinds, A, B
<1> QED
  BY <1>3, <1>4

\* The empty list is a list of no pairs.
LEMMA EmptyListed == <<>> \in Listed({})
<1>1. Len(<<>>) = 0 /\ <<>> \in Seq(Subjects)
  OBVIOUS
<1>2. 1 .. 0 = {}
  OBVIOUS
<1> QED
  BY <1>1, <1>2 DEF Listed

\* The invariant holds of the two empty lists.
LEMMA ListsInitially == ListsInit => ListsInv
<1> SUFFICES ASSUME ListsInit PROVE ListsInv
  OBVIOUS
<1>1. Told = {} /\ told \in [SubjectUuids -> SUBSET Kinds]
  BY DEF ListsInit, Told
<1>2. out = <<>> /\ edits = 0 /\ sends = 0 /\ wire = NoPacket /\ mItems = <<>>
      /\ mTime = 0 /\ mTimeEnvelope = 0 /\ mContextSet = FALSE
  BY DEF ListsInit
<1>3. Len(<<>>) = 0 /\ <<>> \in Seq(Subjects)
  OBVIOUS
<1>4. mItems \in Listed(Told)
  BY <1>1, <1>2, EmptyListed
<1>5. Len(out) <= MaxSubjects /\ edits \in 0 .. MaxEdits /\ sends \in 0 .. MaxSends
  BY <1>2, <1>3, ListAssumption
<1> QED
  BY <1>1, <1>2, <1>3, <1>4, <1>5 DEF ListsInv

\* What is said while the sender changes its list.
LEMMA EditKeeps ==
    ASSUME ListsInv, NEW items \in Seq(Subjects), Edit(items)
    PROVE  ListsInv'
<1>1. /\ out' \in Seq(Subjects) /\ Len(out') <= MaxSubjects
      /\ edits' \in 0 .. MaxEdits /\ sends' \in 0 .. MaxSends
  BY ListAssumption DEF ListsInv, Edit
<1>2. /\ wire' = wire /\ mItems' = mItems /\ mTime' = mTime /\ mTimeEnvelope' = mTimeEnvelope
      /\ mContextSet' = mContextSet /\ told' = told
  BY DEF Edit, listIn
<1> QED
  BY <1>1, <1>2 DEF ListsInv, Told

\* The sender's list stays one of subjects.
LEMMA EditsFacts ==
    ASSUME out \in Seq(Subjects)
    PROVE  /\ \A u \in SubjectUuids : \A k \in Kinds : FindOrAdd(out, u, k).items \in Seq(Subjects)
           /\ \A i \in DOMAIN out :
                /\ \A t \in Stacks : [out EXCEPT ![i].transform = t] \in Seq(Subjects)
                /\ [out EXCEPT ![i].lens = 1 - @] \in Seq(Subjects)
                /\ [out EXCEPT ![i].mEnabled = ~@] \in Seq(Subjects)
<1>1. ASSUME NEW u \in SubjectUuids, NEW k \in Kinds
      PROVE  FindOrAdd(out, u, k).items \in Seq(Subjects)
  <2>1. NewSubject(u, k) \in Subjects
    BY DEF NewSubject, Subjects
  <2>2. Append(out, NewSubject(u, k)) \in Seq(Subjects)
    BY <2>1
  <2>3. FindOrAdd(out, u, k).items \in {out, Append(out, NewSubject(u, k))}
    BY DEF FindOrAdd
  <2> QED
    BY <2>2, <2>3
<1>2. ASSUME NEW i \in DOMAIN out
      PROVE  /\ \A t \in Stacks : [out EXCEPT ![i].transform = t] \in Seq(Subjects)
             /\ [out EXCEPT ![i].lens = 1 - @] \in Seq(Subjects)
             /\ [out EXCEPT ![i].mEnabled = ~@] \in Seq(Subjects)
  <2> DEFINE n == Len(out)
             l == 1 - out[i].lens
             a == [out[i] EXCEPT !.mEnabled = ~out[i].mEnabled]
             r == [out EXCEPT ![i] = a]
  <2>1. n \in Nat /\ out \in [1 .. n -> Subjects] /\ i \in 1 .. n /\ out[i] \in Subjects
    OBVIOUS
  <2>2. l \in 0 .. 1
    BY <2>1 DEF Subjects
  <2>3. a \in Subjects
    BY <2>1 DEF Subjects
  <2>4. [out EXCEPT ![i].lens = 1 - @] = [out EXCEPT ![i].lens = l]
    OBVIOUS
  <2>5. [out EXCEPT ![i].mEnabled = ~@] = r
    OBVIOUS
  <2> HIDE DEF a, l
  <2>6. r \in [1 .. n -> Subjects]
    BY <2>1, <2>3
  <2> HIDE DEF r
  <2>7. r \in Seq(Subjects)
    BY <2>1, <2>6, SeqDef
  <2>8. ASSUME NEW t \in Stacks PROVE [out EXCEPT ![i].transform = t] \in Seq(Subjects)
    <3>1. Restacked(out, i, t, [out EXCEPT ![i].transform = t])
      <4>1. t \in Stacks \cup {NoStack} /\ i \in 1 .. Len(out)
        BY <2>1
      <4> QED
        BY <4>1, Reformed, Zenon
    <3> QED
      BY <3>1, Zenon DEF Restacked
  <2>9. [out EXCEPT ![i].lens = l] \in Seq(Subjects)
    <3>1. Relensed(out, i, l, [out EXCEPT ![i].lens = l])
      <4>1. i \in 1 .. Len(out)
        BY <2>1
      <4> QED
        BY <2>2, <4>1, Reformed, Zenon
    <3> QED
      BY <3>1, Zenon DEF Relensed
  <2> QED
    BY <2>4, <2>5, <2>7, <2>8, <2>9, Zenon
<1> QED
  BY <1>1, <1>2, Zenon

\* A packet that is taken in.
LEMMA ParseFacts ==
    ASSUME ListsInv, NEW clear \in BOOLEAN, ParseList(clear), ~ContextRefused
    PROVE  /\ told' \in [SubjectUuids -> SUBSET Kinds] /\ mItems' \in Listed(Told')
           /\ mItems' \in Shown(Told', wire, [k \in Kinds |-> Len(wire.data[k])],
                                             [k \in Kinds |-> Len(wire.updates[k])])
<1> DEFINE T == IF clear THEN {} ELSE Told
           items == IF clear THEN <<>> ELSE mItems
           final == T \cup Defined
<1>1. wire \in MadePackets
  BY DEF ListsInv, ParseList
<1>2. items \in Listed(T)
  BY EmptyListed DEF ListsInv
<1>3. mItems' = FoldLeft(ParseKind, items, InOrder)
  BY DEF ParseList
<1>4. told' = [u \in SubjectUuids |->
                 {k \in Kinds : (k \in told[u] /\ ~clear) \/ <<u, k>> \in Defined}]
  BY DEF ParseList
<1> HIDE DEF T, items
<1>5. final \subseteq final
  OBVIOUS
<1> HIDE DEF final
<1>6. /\ mItems' \in Listed(T \cup Defined)
      /\ mItems' \in Shown(final, wire, [k \in Kinds |-> Len(wire.data[k])],
                                        [k \in Kinds |-> Len(wire.updates[k])])
  <2>1. T \cup Defined \subseteq final
    BY DEF final
  <2> QED
    BY <1>1, <1>2, <1>3, <2>1, PacketTakenIn, Zenon
<1>7. T \cup Defined \subseteq SubjectUuids \X Kinds
  <2>1. mItems' \in Seq(Subjects) /\ \A q \in T \cup Defined : \E i \in 1 .. Len(mItems') : Pair(mItems'[i]) = q
    BY <1>6 DEF Listed
  <2>2. \A s \in Subjects : Pair(s) \in SubjectUuids \X Kinds
    BY DEF Subjects, Pair
  <2>3. \A i \in 1 .. Len(mItems') : mItems'[i] \in Subjects
    BY <2>1
  <2> QED
    BY <2>1, <2>2, <2>3
<1>8. Told' = T \cup Defined
  <2>1. Told' = {q \in SubjectUuids \X Kinds : q[2] \in told'[q[1]]}
    BY DEF Told
  <2>2. \A q \in SubjectUuids \X Kinds : q = <<q[1], q[2]>> /\ q[1] \in SubjectUuids /\ q[2] \in Kinds
    OBVIOUS
  <2>3. \A q \in SubjectUuids \X Kinds :
          q[2] \in told'[q[1]] <=> (q[2] \in told[q[1]] /\ ~clear) \/ q \in Defined
    BY <1>4, <2>2
  <2>4. \A q \in SubjectUuids \X Kinds : q \in T <=> q[2] \in told[q[1]] /\ ~clear
    BY DEF T, Told
  <2> QED
    BY <1>7, <2>1, <2>3, <2>4
<1>9. told' \in [SubjectUuids -> SUBSET Kinds]
  BY <1>4
<1> QED
  BY <1>6, <1>8, <1>9, Zenon DEF final

\* Every step of the writer and of the reader keeps it.
LEMMA ListsStep == ListsInv /\ [ListsNext]_listVars => ListsInv'
<1> SUFFICES ASSUME ListsInv, [ListsNext]_listVars PROVE ListsInv'
  OBVIOUS
<1>0. out \in Seq(Subjects)
  BY DEF ListsInv
<1>1. ASSUME NEW u \in SubjectUuids, NEW k \in Kinds, AddSubject(u, k) PROVE ListsInv'
  <2>1. FindOrAdd(out, u, k).items \in Seq(Subjects)
    BY <1>0, EditsFacts, Zenon
  <2> QED
    BY <1>1, <2>1, EditKeeps, Zenon DEF AddSubject
<1>2. ASSUME NEW i \in DOMAIN out, SetLens(i) PROVE ListsInv'
  <2>1. [out EXCEPT ![i].lens = 1 - @] \in Seq(Subjects)
    BY <1>0, EditsFacts, Zenon
  <2> QED
    BY <1>2, <2>1, EditKeeps, Zenon DEF SetLens
<1>3. ASSUME NEW i \in DOMAIN out, Toggle(i) PROVE ListsInv'
  <2>1. [out EXCEPT ![i].mEnabled = ~@] \in Seq(Subjects)
    BY <1>0, EditsFacts, Zenon
  <2> QED
    BY <1>3, <2>1, EditKeeps, Zenon DEF Toggle
<1>4. ASSUME NEW i \in DOMAIN out, NEW stack \in Stacks, Restack(i, stack) PROVE ListsInv'
  <2>1. [out EXCEPT ![i].transform = stack] \in Seq(Subjects)
    BY <1>0, EditsFacts, Zenon
  <2> QED
    BY <1>4, <2>1, EditKeeps, Zenon DEF Restack
<1>5. ASSUME StartAgain PROVE ListsInv'
  <2>1. <<>> \in Seq(Subjects)
    OBVIOUS
  <2> QED
    BY <1>5, <2>1, EditKeeps, Zenon DEF StartAgain
<1>6. ASSUME NEW full \in BOOLEAN, Serialize(full) PROVE ListsInv'
  <2>1. PICK context \in BOOLEAN, envelope \in BOOLEAN : wire' = CreateRoot(full, context, envelope)
    BY <1>6 DEF Serialize
  <2>2. sends < MaxSends /\ sends' = sends + 1 /\ sends \in 0 .. MaxSends
    BY <1>6 DEF Serialize, ListsInv
  <2>3. wire' \in MadePackets
    BY <1>0, <2>1, <2>2, CreateRootFacts, Zenon
  <2>4. /\ out' = out /\ edits' = edits /\ mItems' = mItems /\ mTime' = mTime
        /\ mTimeEnvelope' = mTimeEnvelope /\ mContextSet' = mContextSet /\ told' = told
    BY <1>6 DEF Serialize, listIn
  <2>5. sends' \in 0 .. MaxSends
    BY <2>2, ListAssumption
  <2> QED
    BY <2>3, <2>4, <2>5 DEF ListsInv, Told
<1>7. ASSUME NEW clear \in BOOLEAN, ParseList(clear) PROVE ListsInv'
  <2>1. wire \in MadePackets /\ wire' = NoPacket /\ mTime' = wire.made /\ mTimeEnvelope' = wire.envelope
    BY <1>7 DEF ListsInv, ParseList, ParseTime
  <2>2. wire.envelope \in {0, wire.made} /\ wire.context \in BOOLEAN
    BY <2>1 DEF MadePackets, ListPackets
  <2>3. mTimeEnvelope' \in {0, mTime'}
    BY <2>1, <2>2
  <2>4. mContextSet' \in BOOLEAN
    BY <1>7, <2>2 DEF ParseList, ListsInv
  <2>5. out' = out /\ edits' = edits /\ sends' = sends
    BY <1>7 DEF ParseList, listOut
  <2>6. told' \in [SubjectUuids -> SUBSET Kinds] /\ mItems' \in Listed(Told')
    <3>1. CASE ContextRefused
      <4>1. mItems' = mItems /\ told' = told
        BY <1>7, <3>1 DEF ParseList
      <4> QED
        BY <4>1 DEF ListsInv, Told
    <3>2. CASE ~ContextRefused
      BY <1>7, <3>2, ParseFacts, Zenon
    <3> QED
      BY <3>1, <3>2
  <2> HIDE <1>7
  <2> QED
    BY <2>1, <2>3, <2>4, <2>5, <2>6 DEF ListsInv
<1>8. ASSUME LosePacket PROVE ListsInv'
  BY <1>8 DEF LosePacket, ListsInv, listOut, listIn, Told
<1>9. ASSUME UNCHANGED listVars PROVE ListsInv'
  BY <1>9 DEF listVars, ListsInv, listOut, listIn, Told
<1> QED
  BY <1>1, <1>2, <1>3, <1>4, <1>5, <1>6, <1>7, <1>8, <1>9 DEF ListsNext

\* It is an invariant of the two lists.
LEMMA ListsAlways == ListsSpec => []ListsInv
  BY ListsInitially, ListsStep, PTL DEF ListsSpec

\* Lists and packets have their types.
THEOREM ListsTyped == ListsSpec => []ListsTypeOK
<1>1. ListsInv => ListsTypeOK
  BY DEF ListsInv, ListsTypeOK, Listed, MadePackets
<1> QED
  BY <1>1, ListsAlways, PTL

\* The envelope is of the packet the time is from.
THEOREM EnvelopeRight == ListsSpec => []EnvelopeOfItsTime
<1>1. ListsInv => EnvelopeOfItsTime
  BY DEF ListsInv, EnvelopeOfItsTime
<1> QED
  BY <1>1, ListsAlways, PTL

\* A uuid that came under one kind is listed once.
THEOREM OnceListed == ListsSpec => []ListedOnce
<1>1. ListsInv => ListedOnce
  <2> SUFFICES ASSUME ListsInv, NEW u \in SubjectUuids, Cardinality(told[u]) <= 1
               PROVE  Cardinality(At(mItems, u)) = Cardinality(told[u])
    BY DEF ListedOnce
  <2>1. told[u] \subseteq Kinds /\ mItems \in Listed(Told) /\ mItems \in Seq(Subjects)
    BY DEF ListsInv, Listed
  <2>2. IsFiniteSet(told[u])
    BY <2>1, KindsFinite, FS_Subset
  <2>3. Cardinality(told[u]) \in Nat
    BY <2>2, FS_CardinalityType
  <2>4. /\ \A i \in 1 .. Len(mItems) : Pair(mItems[i]) \in Told
        /\ \A q \in Told : \E i \in 1 .. Len(mItems) : Pair(mItems[i]) = q
    BY <2>1 DEF Listed
  <2>5. \A k : <<u, k>> \in Told <=> k \in told[u]
    BY <2>1 DEF Told
  <2>6. DOMAIN mItems = 1 .. Len(mItems)
    BY <2>1
  <2>7. CASE Cardinality(told[u]) = 0
    <3>1. told[u] = {}
      BY <2>2, <2>7, FS_EmptySet
    <3>2. At(mItems, u) = {}
      BY <2>4, <2>5, <2>6, <3>1 DEF At, Pair
    <3> QED
      BY <2>7, <3>2, FS_EmptySet
  <2>8. CASE Cardinality(told[u]) = 1
    <3>1. PICK k : told[u] = {k}
      BY <2>2, <2>8, FS_Singleton
    <3>2. PICK i \in 1 .. Len(mItems) : Pair(mItems[i]) = <<u, k>>
      BY <2>4, <2>5, <3>1
    <3>3. mItems[i].mUuid = u
      BY <3>2 DEF Pair
    <3>4. Lone(Told, u)
      BY <2>5, <3>1 DEF Lone
    <3>5. \A j \in 1 .. Len(mItems) : mItems[j].mUuid = u => j = i
      BY <2>1, <3>3, <3>4 DEF Listed
    <3>6. At(mItems, u) = {i}
      BY <2>6, <3>3, <3>5 DEF At
    <3> QED
      BY <2>8, <3>6, FS_Singleton
  <2> QED
    BY <2>3, <2>7, <2>8
<1> QED
  BY <1>1, ListsAlways, PTL

\* A packet that is taken in is shown as its last entries say.
THEOREM SaidIsShown == ListsSpec => ShownAsSaid
<1>1. ASSUME ListsInv, [ListsNext]_listVars,
             wire # NoPacket, wire' = NoPacket, mTime' # mTime, ~ContextRefused,
             NEW i \in DOMAIN mItems', Cardinality(told'[mItems'[i].mUuid]) = 1
      PROVE  /\ \A x \in LastOf(wire.data[mItems'[i].kind], mItems'[i].mUuid) :
                    Local(mItems'[i].transform) = x.local
             /\ \A x \in LastOf(wire.updates[mItems'[i].kind], mItems'[i].mUuid) :
                    mItems'[i].lens = x.lens
  <2> DEFINE s == mItems'[i]
             d == [k \in Kinds |-> Len(wire.data[k])]
             e == [k \in Kinds |-> Len(wire.updates[k])]
  <2>1. PICK clear \in BOOLEAN : ParseList(clear)
    BY <1>1 DEF ListsNext, listVars, AddSubject, SetLens, Toggle, Restack, StartAgain, Edit,
                Serialize, LosePacket, listIn
  <2>2. /\ told' \in [SubjectUuids -> SUBSET Kinds] /\ mItems' \in Listed(Told')
        /\ mItems' \in Shown(Told', wire, d, e)
    BY <1>1, <2>1, ParseFacts, Zenon
  <2>3. wire \in MadePackets
    BY <1>1 DEF ListsInv
  <2> HIDE DEF d, e
  <2>4. i \in 1 .. Len(mItems') /\ s \in Subjects
    BY <1>1, <2>2 DEF Listed
  <2>5. s.mUuid \in SubjectUuids /\ s.kind \in Kinds
    BY <2>4 DEF Subjects
  <2>6. Lone(Told', s.mUuid)
    <3>1. IsFiniteSet(told'[s.mUuid])
      <4>1. told'[s.mUuid] \subseteq Kinds
        BY <2>2, <2>5
      <4> QED
        BY <4>1, KindsFinite, FS_Subset
    <3>2. PICK k : told'[s.mUuid] = {k}
      BY <1>1, <3>1, FS_Singleton
    <3>3. \A c \in Kinds : <<s.mUuid, c>> \in Told' => c \in told'[s.mUuid]
      BY DEF Told
    <3> HIDE DEF s
    <3> QED
      BY <3>2, <3>3 DEF Lone
  <2>7. ShownData(s, wire, d) /\ ShownLens(s, wire, e)
    BY <2>2, <2>4, <2>6 DEF Shown
  <2>8. /\ DOMAIN wire.data[s.kind] = 1 .. d[s.kind]
        /\ DOMAIN wire.updates[s.kind] = 1 .. e[s.kind]
    <3>1. wire.data[s.kind] \in Seq(DataOf(s.kind)) /\ wire.updates[s.kind] \in Seq(UpdatesOf(s.kind))
      BY <2>3, <2>5 DEF MadePackets
    <3>2. d[s.kind] = Len(wire.data[s.kind]) /\ e[s.kind] = Len(wire.updates[s.kind])
      BY <2>5 DEF d, e
    <3> QED
      BY <3>1, <3>2
  <2> HIDE DEF s
  <2>9. ASSUME NEW x \in LastOf(wire.data[s.kind], s.mUuid) PROVE Local(s.transform) = x.local
    <3>1. PICK j \in 1 .. d[s.kind] :
             x = wire.data[s.kind][j] /\ LastAt(wire.data[s.kind], d[s.kind], s.mUuid, j)
      BY <2>8, <2>9 DEF LastOf, LastAt
    <3>2. j \in Nat
      BY <3>1
    <3> QED
      BY <2>7, <3>1, <3>2 DEF ShownData
  <2>10. ASSUME NEW x \in LastOf(wire.updates[s.kind], s.mUuid) PROVE s.lens = x.lens
    <3>1. PICK j \in 1 .. e[s.kind] :
             x = wire.updates[s.kind][j] /\ LastAt(wire.updates[s.kind], e[s.kind], s.mUuid, j)
      BY <2>8, <2>10 DEF LastOf, LastAt
    <3>2. j \in Nat
      BY <3>1
    <3> QED
      BY <2>7, <3>1, <3>2 DEF ShownLens
  <2> QED
    BY <2>9, <2>10 DEF s
<1>2. ListsInv /\ [ListsNext]_listVars =>
        (wire # NoPacket /\ wire' = NoPacket /\ mTime' # mTime /\ ~ContextRefused =>
         \A i \in DOMAIN mItems' :
            LET s == mItems'[i]
            IN  Cardinality(told'[s.mUuid]) = 1 =>
                  /\ \A x \in LastOf(wire.data[s.kind], s.mUuid) : Local(s.transform) = x.local
                  /\ \A x \in LastOf(wire.updates[s.kind], s.mUuid) : s.lens = x.lens)
  BY <1>1, Zenon
<1> QED
  BY <1>2, ListsAlways, PTL DEF ListsSpec, ShownAsSaid

=============================================================================
