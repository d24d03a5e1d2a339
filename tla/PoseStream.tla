----------------------------- MODULE PoseStream ------------------------------
(***************************************************************************)
(* What the subject stream promises the receiving application: it is as if *)
(* each frame carried the whole pose of its subjects.  From the first frame *)
(* that describes a subject, until a frame is lost or the subject gets      *)
(* another skeleton, the receiver shows each pose it takes in, the poses in *)
(* the order they were sent, each to within a tolerance that does not grow, *)
(* and leaves the subjects alone that a frame is not about.                 *)
(***************************************************************************)
EXTENDS Integers, Sequences

CONSTANTS
    Subject,
    Channel,    \* the parts of a transform the promise is about
    Tolerance

VARIABLES
    pose,      \* the sender's: a list of transforms for each subject
    unknown,   \* subjects described in no frame since they got their skeleton
    frames,    \* on the way, oldest first
    whole,     \* the last frame made is among them, or was
    lost,      \* was a frame lost since the receiver took one in?
    shows      \* the lists of the subjects the receiver is in step with

streamVars == <<pose, unknown, frames, whole, lost, shows>>

Dist(a, b) == IF a >= b THEN a - b ELSE b - a

\* The same transforms, with values that differ by little.
Close(list, other) ==
    /\ DOMAIN list = DOMAIN other
    /\ \A i \in DOMAIN list :
        /\ list[i].name = other[i].name
        /\ \A c \in Channel : Dist(list[i].value[c], other[i].value[c]) <= Tolerance

\* It begins with nobody described and nothing shown.
Init ==
    /\ DOMAIN pose = Subject /\ unknown = Subject
    /\ frames = <<>> /\ whole = TRUE /\ lost = TRUE
    /\ shows = [u \in {} |-> <<>>]

\* The application moves a subject: its transforms stay the same.
Animate(u) ==
    /\ DOMAIN pose' = Subject /\ \A v \in Subject \ {u} : pose'[v] = pose[v]
    /\ DOMAIN pose'[u] = DOMAIN pose[u]
    /\ \A i \in DOMAIN pose[u] : pose'[u][i].name = pose[u][i].name
    /\ UNCHANGED <<unknown, frames, whole, lost, shows>>

\* It gives a subject another skeleton.
Reshape(u) ==
    /\ DOMAIN pose' = Subject /\ \A v \in Subject \ {u} : pose'[v] = pose[v]
    /\ unknown' = unknown \cup {u}
    /\ UNCHANGED <<frames, whole, lost, shows>>

\* A frame of some subjects, which describes them or only says where they are.
\* It may be dropped.
Frame(about, described) ==
    [pose      |-> [u \in about |-> pose[u]],
     described |-> described,
     unknown   |-> unknown \ described,
     next      |-> whole]

Send(about, described) ==
    /\ unknown' = unknown \ described
    /\ \/ frames' = Append(frames, Frame(about, described)) /\ whole' = TRUE
       \/ frames' = frames /\ whole' = FALSE
    /\ UNCHANGED <<pose, lost, shows>>

\* A frame behind one that is missing ends what was in step, except for the
\* subjects it describes.
InStep(f) ==
    ((IF f.next /\ ~lost THEN DOMAIN shows ELSE {}) \ f.unknown) \cup f.described

Take ==
    /\ frames # <<>>
    /\ LET f == Head(frames)
       IN  /\ DOMAIN shows' = InStep(f)
           /\ \A u \in InStep(f) :
                IF u \in DOMAIN f.pose THEN Close(shows'[u], f.pose[u])
                                       ELSE u \in DOMAIN shows /\ shows'[u] = shows[u]
    /\ frames' = Tail(frames) /\ lost' = FALSE
    /\ UNCHANGED <<pose, unknown, whole>>

Lose ==
    /\ frames # <<>> /\ frames' = Tail(frames) /\ lost' = TRUE
    /\ UNCHANGED <<pose, unknown, whole, shows>>

\* The receiver begins again.
Restart ==
    /\ frames' = <<>> /\ lost' = TRUE /\ shows' = [u \in {} |-> <<>>]
    /\ UNCHANGED <<pose, unknown, whole>>

Next ==
    \/ \E u \in Subject : Animate(u) \/ Reshape(u)
    \/ \E about \in SUBSET Subject : \E described \in {{}, about} : Send(about, described)
    \/ Take
    \/ Lose
    \/ Restart

Spec == Init /\ [][Next]_streamVars

=============================================================================
