----------------------------- MODULE XsensParser -----------------------------
(***************************************************************************)
(* The XSens parser: datagrams of three kinds, with the names and sizes of *)
(* a character's segments, its name, and its poses, become the transforms  *)
(* of a subject.  A name of the parser's table is its place in the table.  *)
(***************************************************************************)
EXTENDS Integers, Sequences, SequencesExt

CONSTANTS
    parentIndex,   \* the parent of each name of the table, from the second on
    MaxSegments,   \* bounds: segments in a datagram,
    MaxCharacter,  \* the characters' ids,
    MaxDatagrams   \* and datagrams

ASSUME XsensAssumption ==
    /\ parentIndex \in Seq(Nat)
    /\ \A n \in DOMAIN parentIndex : parentIndex[n] \in 0 .. n - 1
    /\ MaxSegments \in Nat /\ MaxCharacter \in Nat /\ MaxDatagrams \in Nat

\* The place of "Root" is 0; unknown names, such as those of renamed props and
\* the name of a segment without one, are past the table's end.
Size    == Len(parentIndex) + 1
Unknown == Size
Names   == 1 .. Unknown

Characters == 0 .. MaxCharacter

None == 0

VARIABLES
    info,       \* names of each character's segments, which are those of its sizes too
    characters, \* the subjects
    running,    \* "yes", "thrown", or "wild" when something was used that is not there
    datagrams

xsensVars == <<info, characters, running, datagrams>>

XsensInit ==
    /\ info = [c \in {} |-> <<>>] /\ characters = <<>> /\ running = "yes" /\ datagrams = 0

Transform(name, parentId, data, scaleOf) ==
    [name |-> name, parentId |-> parentId, data |-> data, scaleOf |-> scaleOf]

Root == Transform(0, -1, FALSE, None)

\* The names of the table from one place up to another, which the pose does not
\* have.
Missing(from, to) == [k \in 1 .. to - from |-> Transform(from + k - 1, 0, FALSE, None)]

\* MUTANT: what the pose does not have is left out.
SegmentDense(items, i, name, scale) ==
    IF name < Len(items) \/ name = Unknown THEN items
    ELSE Append(items, Transform(name, parentIndex[name], TRUE, None))

\* One segment, the i-th.  The names of the table are added up to its own, or, if
\* that does not follow, up to the table's end, where the pose ends.  Whether there
\* is a size is asked of the place in the table, and the size taken is the i-th.
Segment(items, i, name, scale) ==
    IF name < Len(items) \/ name = Unknown THEN items \o Missing(Len(items), Size)
    ELSE items \o Missing(Len(items), name)
               \o <<Transform(name, parentIndex[name], TRUE,
                              IF name < Len(scale) THEN scale[i] ELSE None)>>

\* Ids of segments count from 1.
Posed(ids, names) ==
    LET nameOf(id) == IF id \in DOMAIN names THEN names[id] ELSE Unknown
        add(items, i) ==
            IF Len(items) = Size THEN items ELSE Segment(items, i, nameOf(ids[i]), names)
    IN  FoldLeft(add, <<Root>>, [i \in DOMAIN ids |-> i])

\* A search that comes to the table's end compares what is behind it.
RunsOff(items) == Len(items) = Size /\ ~Last(items).data

-----------------------------------------------------------------------------
\* One more subject is made only for the next character: for a later one the
\* loop uses its place in the list before it is there.
GetSubject(c) ==
    /\ c <= Len(characters)
    /\ characters' = IF c = Len(characters) THEN Append(characters, <<>>) ELSE characters

GetNoSubject(c) ==
    /\ c > Len(characters) /\ running' = "wild" /\ UNCHANGED <<info, characters>>

\* A message without segments, or with the character's name.
GetMeta(c) == GetSubject(c) /\ UNCHANGED <<info, running>>

\* The names taken are those before one that is too long.
GetScale(c, names) ==
    /\ GetSubject(c) /\ UNCHANGED running
    /\ info' = [d \in DOMAIN info \cup {c} |-> IF d = c THEN names ELSE info[d]]

\* The subject's transforms are built anew; without sizes there is only the root.
GetQuaternionPose(c, ids) ==
    LET items == IF c \in DOMAIN info THEN Posed(ids, info[c]) ELSE <<Root>>
    IN  /\ c <= Len(characters)
        /\ characters' = IF c = Len(characters) THEN Append(characters, items)
                         ELSE [characters EXCEPT ![c + 1] = items]
        /\ running' \in {"yes"} \cup (IF RunsOff(items) THEN {"wild"} ELSE {})
        /\ UNCHANGED info

\* A datagram that ends before what it is said to hold, or whose protocol is not
\* a number: nobody catches what is thrown, and the program ends.  One of less than
\* 6 bytes, too: sz - 6 wraps, and there is no vector as long as that.  Where
\* sz - 24 is used, the header's 24 bytes have been read.
CutShort == running' = "thrown" /\ UNCHANGED <<info, characters>>

SegmentLists == UNION {[1 .. n -> Names] : n \in 0 .. MaxSegments}

XsensNext ==
    /\ running = "yes" /\ datagrams < MaxDatagrams /\ datagrams' = datagrams + 1
    /\ \/ \E c \in Characters :
            \/ GetNoSubject(c)
            \/ GetMeta(c)
            \/ \E names \in SegmentLists : GetScale(c, names)
            \/ \E ids \in SegmentLists : GetQuaternionPose(c, ids)
       \/ CutShort

XsensSpec == XsensInit /\ [][XsensNext]_xsensVars

-----------------------------------------------------------------------------
XsensTypeOK ==
    /\ DOMAIN info \subseteq Characters /\ running \in {"yes", "thrown", "wild"}
    /\ \A c \in DOMAIN info : info[c] \in SegmentLists /\ c < Len(characters)
    /\ datagrams \in 0 .. MaxDatagrams

\* Whatever segments a message leaves out, renames or puts in another order, a
\* subject is the table up to some name: so each segment stands where parents
\* are looked up, and what it hangs from is there, before it.
SegmentsInPlace ==
    \A c \in DOMAIN characters : \A k \in DOMAIN characters[c] :
        LET t == characters[c][k]
        IN  /\ t.name = k - 1
            /\ t.parentId < t.name
            /\ t.data => t.parentId = parentIndex[t.name]

=============================================================================
