-------------------------- MODULE ConversionContext --------------------------
(***************************************************************************)
(* Coordinate systems: a context says which way each axis points and what  *)
(* a unit is, a conversion between two is a signed permutation and a       *)
(* scale.  A list takes the context of the first packet, unless it was     *)
(* given one, and converts what comes from senders with others.            *)
(***************************************************************************)
EXTENDS Integers

CONSTANTS
    Contexts,  \* the contexts senders and lists may have
    Metres,    \* metres per unit, as multiples of a length all of them share
    Points     \* coordinates to convert: multiples that stay whole when scaled

Directions == {"Left", "Right", "Up", "Down", "Forward", "Back"}
Slots      == 0 .. 2

DistanceUnits == <<"Millimeter", "Centimeter", "Meter", "Kilometer", "Inch", "Foot", "Mile",
                   "LightYear", "Parsec">>

Units == {"Unknown"} \cup {DistanceUnits[n] : n \in DOMAIN DistanceUnits}

\* Metres tells the unknown unit by 0.
ASSUME ContextAssumption ==
    /\ Contexts \subseteq [axes : [Slots -> Directions \cup {"Unknown"}], mDistance : DOMAIN Metres]
    /\ DOMAIN Metres \subseteq Units
    /\ "Unknown" \in DOMAIN Metres /\ Metres["Unknown"] = 0
    /\ \A u \in DOMAIN Metres : Metres[u] \in Nat
    /\ Points \subseteq [Slots -> Int]
    /\ \A p \in Points, i \in Slots : \A u, v \in DOMAIN Metres :
          Metres[v] # 0 => (p[i] * Metres[u]) % Metres[v] = 0

axisId(d) ==
    CASE d \in {"Left", "Right"}   -> 1
      [] d \in {"Up", "Down"}      -> 2
      [] d \in {"Forward", "Back"} -> 3
      [] OTHER                     -> 0

\* Axes are known, and no two of them parallel; the unit is known.
Valid(c) ==
    /\ \A i \in Slots : c.axes[i] \in Directions
    /\ \A i, j \in Slots : axisId(c.axes[i]) = axisId(c.axes[j]) => i = j
    /\ Metres[c.mDistance] # 0

NoContext == [axes |-> [i \in Slots |-> "Unknown"], mDistance |-> "Unknown"]

-----------------------------------------------------------------------------
(* The conversion.  A scale is a pair: times the first, by the second.     *)

Source(from, to, i) == CHOOSE j \in Slots : axisId(from.axes[j]) = axisId(to.axes[i])

ComputeConversion(from, to) ==
    [axisRemap |-> [i \in Slots |-> Source(from, to, i)],
     axisSign  |-> [i \in Slots |->
                      IF from.axes[Source(from, to, i)] = to.axes[i] THEN 1 ELSE -1],
     unitScale |-> <<Metres[from.mDistance], Metres[to.mDistance]>>]

Turned(conv, v) == [i \in Slots |-> v[conv.axisRemap[i]] * conv.axisSign[i]]
Scaled(conv, v) == [i \in Slots |-> (v[i] * conv.unitScale[1]) \div conv.unitScale[2]]

ConvertTranslation(conv, t) == Scaled(conv, Turned(conv, t))

\* Does the conversion change handedness?
Flips(conv) ==
    LET r == conv.axisRemap
        inv(i, j) == IF r[i] > r[j] THEN 1 ELSE 0
        permSign == IF (inv(0, 1) + inv(0, 2) + inv(1, 2)) % 2 = 0 THEN 1 ELSE -1
    IN  permSign * conv.axisSign[0] * conv.axisSign[1] * conv.axisSign[2] < 0

\* A rotation is a quaternion: w and the vector of the others.
ConvertRotation(conv, q) == [w |-> IF Flips(conv) THEN -q.w ELSE q.w, v |-> Turned(conv, q.v)]

\* The matrix that takes each destination axis from its source.
Basis(conv) ==
    [i \in Slots |-> [j \in Slots |-> IF j = conv.axisRemap[i] THEN conv.axisSign[i] ELSE 0]]

Times(a, b) ==
    [i \in Slots |-> [j \in Slots |-> a[i][0] * b[0][j] + a[i][1] * b[1][j] + a[i][2] * b[2][j]]]

Apply(a, v) == [i \in Slots |-> a[i][0] * v[0] + a[i][1] * v[1] + a[i][2] * v[2]]

Transpose(a) == [i \in Slots |-> [j \in Slots |-> a[j][i]]]

\* A matrix is its rotation and its translation.
ConvertMatrix(conv, m) ==
    [r |-> Times(Times(Basis(conv), m.r), Transpose(Basis(conv))),
     t |-> Apply(Basis(conv), Scaled(conv, m.t))]

-----------------------------------------------------------------------------
(* A packet's context, and what parse does with it.                        *)

\* Directions are named alike on the wire; what has no name there is unknown.
dir ==
    [Up |-> "Direction_Up", Down |-> "Direction_Down", Left |-> "Direction_Left",
     Right |-> "Direction_Right", Forward |-> "Direction_Forward", Back |-> "Direction_Back"]

WireDirection(d) == IF d \in DOMAIN dir THEN dir[d] ELSE "Direction_Unknown"

Direction(code) ==
    IF \E d \in DOMAIN dir : dir[d] = code
    THEN CHOOSE d \in DOMAIN dir : dir[d] = code ELSE "Unknown"

\* Units are numbers on the wire: written by the schema's name, read by a cast to
\* the library's own enumeration, so that their order there must be the same.
WireUnits     == <<"Millimeter", "Centimeter", "Meter", "Kilometer", "Inch", "Foot", "Mile",
                   "LightYear", "Parsec">>

distUnit(u) ==
    IF \E n \in DOMAIN WireUnits : WireUnits[n] = u
    THEN CHOOSE n \in DOMAIN WireUnits : WireUnits[n] = u ELSE 0

AddContext(c) ==
    [x_axis |-> WireDirection(c.axes[0]), y_axis |-> WireDirection(c.axes[1]),
     z_axis |-> WireDirection(c.axes[2]), distance_unit |-> distUnit(c.mDistance)]

SenderContext(root) ==
    LET axes == <<root.x_axis, root.y_axis, root.z_axis>>
        unit == root.distance_unit
    IN  [axes |-> [i \in Slots |-> Direction(axes[i + 1])],
         mDistance |-> IF unit = 0 THEN "Unknown" ELSE DistanceUnits[unit]]

VARIABLES
    mContext,    \* the list's
    senderContext,  \* that of the sender whose packet was parsed last
    conversion   \* {} or its conversion

ctxVars == <<mContext, senderContext, conversion>>

CtxInit == mContext \in Contexts \cup {NoContext} /\ senderContext = NoContext /\ conversion = {}

\* MUTANT: the conversion the first packet needed is kept.
ParseContextCached(c) ==
    /\ senderContext' = c
    /\ IF ~Valid(mContext)
       THEN mContext' = c /\ conversion' = {}
       ELSE /\ conversion' = (IF Valid(c) /\ conversion = {}
                              THEN {ComputeConversion(c, mContext)} ELSE conversion)
            /\ UNCHANGED mContext

\* The list takes the sender's context if its own is not valid, be the sender's
\* valid or not; with one that is, a packet without is refused.
ParseContext(c) ==
    LET from == SenderContext(AddContext(c))
    IN  /\ senderContext' = c
        /\ IF ~Valid(mContext)
           THEN mContext' = from /\ conversion' = {}
           ELSE /\ conversion' = (IF Valid(from) THEN {ComputeConversion(from, mContext)} ELSE {})
                /\ UNCHANGED mContext

CtxNext == \E c \in Contexts : ParseContext(c)

CtxSpec == CtxInit /\ [][CtxNext]_ctxVars

-----------------------------------------------------------------------------
CtxTypeOK ==
    /\ {mContext, senderContext} \subseteq Contexts \cup {NoContext}
    /\ \A conv \in conversion :
          /\ {conv.axisRemap[i] : i \in Slots} = Slots
          /\ \A i \in Slots : conv.axisSign[i] \in {-1, 1}

\* What coordinates mean: how far right, up and to the front.
Sign(d)     == IF d \in {"Right", "Up", "Forward"} THEN 1 ELSE -1
Slot(c, id) == CHOOSE i \in Slots : axisId(c.axes[i]) = id
Meant(c, v) == [id \in 1 .. 3 |-> Sign(c.axes[Slot(c, id)]) * v[Slot(c, id)]]
Place(c, v) == [id \in 1 .. 3 |-> Meant(c, v)[id] * Metres[c.mDistance]]

\* The matrix of a rotation, times the square of the quaternion's length.
Matrix(q) ==
    LET x == q.v[0]  y == q.v[1]  z == q.v[2]  w == q.w
        row0 == <<w*w + x*x - y*y - z*z, 2 * (x*y - w*z), 2 * (x*z + w*y)>>
        row1 == <<2 * (x*y + w*z), w*w - x*x + y*y - z*z, 2 * (y*z - w*x)>>
        row2 == <<2 * (x*z - w*y), 2 * (y*z + w*x), w*w - x*x - y*y + z*z>>
    IN  [i \in Slots |-> [j \in Slots |-> <<row0, row1, row2>>[i + 1][j + 1]]]

Rotations == [w : 0 .. 1, v : [Slots -> 0 .. 1]]

\* Whatever contexts the list and the sender of the last packet it took have, a
\* point converted lies where it lay, in a matrix as by itself; and a pose turned
\* by a quaternion is turned the same way by the converted quaternion and by the
\* converted matrix.
SamePose ==
    \A conv \in conversion :
        /\ \A p \in Points : LET moved == ConvertTranslation(conv, p)
              IN  /\ Place(mContext, moved) = Place(senderContext, p)
                  /\ ConvertMatrix(conv, [r |-> Basis(conv), t |-> p]).t = moved
        /\ \A q \in Rotations :
              ConvertMatrix(conv, [r |-> Matrix(q), t |-> [i \in Slots |-> 0]]).r
                = Matrix(ConvertRotation(conv, q))

=============================================================================
